---- MODULE Spec2Model ----
(***************************************************************************)
(* Field propagator coupled to the multi-level ORANGE navigator            *)
(* (celeritas).  The navigator (OrangeTrackView, LevelStateAccessor) and   *)
(* the propagator loop (FieldPropagator) are translated from the sources.  *)
(*                                                                         *)
(* The navigator's geometry is one-dimensional: a position is an integer   *)
(* abscissa, a unit direction is +1 or -1, a surface is the plane x = a;   *)
(* the rectilinear array alone is three-dimensional.  Lengths are          *)
(* fixed-point integers and a real division truncates.  The build is the   *)
(* release build: CELER_EXPECT / CELER_ASSERT / CELER_ENSURE compile to     *)
(* nothing, so a precondition is the guard of the caller's action and an   *)
(* assertion inside an operation does not stop it.                         *)
(*                                                                         *)
(* The unit indexer, the tracker of a rectilinear array, the translator    *)
(* and the launcher that turns primaries into track initializers are       *)
(* modelled beside them, each under a specification of its own.            *)
(***************************************************************************)
EXTENDS Integers, Sequences, FiniteSets, TLC

VARIABLES
    params,     \* OrangeParamsData: the geometry, never written (for the
                \* launcher of primaries: its span of primaries)
    states,     \* OrangeStateData: per-level arrays and the level per thread
                \* (for the launcher of primaries: TrackInitStateData)
    view,       \* OrangeTrackView members next_step_, next_surface_ per thread
    pc,         \* position of the caller: "init", "idle", "loop", "return",
                \* "done"
    prop,       \* FieldPropagator: its driver and the locals of operator()(step)
    hist        \* history of the calls, read by the properties only

vars == <<params, states, view, pc, prop, hist>>

-----------------------------------------------------------------------------
(* Bounds of the model *)

MaxPos == 13          \* positions are 0..MaxPos
MaxStep == 4          \* largest step a caller asks of propagate / move_internal
MaxMinStep == 2       \* driver.minimum_step is 1..MaxMinStep
MaxDelta == 3         \* driver.delta_intersection is 1..MaxDelta
LongAdvance == 2      \* the substep of the driver in LongSpec
MaxUniverses == 3     \* an indexer is built for 1..MaxUniverses universes
MaxCount == 2         \* of at most MaxCount surfaces and volumes each
MaxPrimaries == 3     \* a launcher is given 1..MaxPrimaries primaries
MaxInitializers == 4  \* and an array of at most MaxInitializers initializers

(* Program constants *)

max_level == 2                     \* OrangeParamsScalars::max_level
Null == -1                         \* OpaqueId{} : the invalid id
no_intersection == 1000            \* numeric_limits<real_type>::infinity()
CELERITAS_DEBUG == FALSE

\* The thread of the track that is stepped, and the thread a secondary of
\* that track is created in
Threads == {0}
Secondaries == {1}
AllThreads == Threads \cup Secondaries
Dirs == {-1, 1}

Min(a, b) == IF a <= b THEN a ELSE b
Abs(a) == IF a < 0 THEN -a ELSE a

flip_sense(s) == IF s = "inside" THEN "outside" ELSE "inside"
flip_boundary(b) == IF b = "exiting" THEN "reentrant" ELSE "exiting"

\* detail::OnSurface : a surface id and the sense of the track on it
OnSurface(id, sense) == [id |-> id, sense |-> sense]
NoSurface == OnSurface(Null, "inside")

-----------------------------------------------------------------------------
(* Geometry parameters (immutable).  Universe 0 is the top universe and   *)
(* its volume 0 is the exterior.                                           *)

top_universe_id == 0

\* per universe: plane positions by local surface id, cells by local volume id
\* (a cell is lo < x < hi, the exterior is x < lo or x > hi; Null: unbounded)

\* Two universes: the exterior of universe 0 is x < 1 or x > 12, its cell
\* (6,10) holds universe 1 and none of its cells covers (10,12)
NestedUnits ==
    << [ surfaces |-> <<1, 6, 10, 12>>,
         volumes  |-> << [exterior |-> TRUE,  lo |-> 0, hi |-> 3],
                         [exterior |-> FALSE, lo |-> 0, hi |-> 1],
                         [exterior |-> FALSE, lo |-> 1, hi |-> 2] >> ],
       [ surfaces |-> <<8>>,
         volumes  |-> << [exterior |-> FALSE, lo |-> Null, hi |-> 0],
                         [exterior |-> FALSE, lo |-> 0, hi |-> Null] >> ] >>

NestedParams ==
    [ simple_units   |-> NestedUnits,
      volume_records |-> <<Null, Null, 1, Null, Null>>,
      labels         |-> <<"[EXTERIOR]", "Left", "Right", "Low", "High">>,
      extent         |-> MaxPos,
      rect_arrays    |-> <<>> ]

\* The line y = z = -10 of the four-levels geometry, x shifted by 24: the
\* world is (0,48) and holds two envelopes (7,21) and (27,41), each around a
\* Shape1 one unit inside it, itself around a Shape2 one unit inside it
FourLevelsUnits ==
    << [ surfaces |-> <<0, 7, 8, 9, 19, 20, 21, 27, 28, 29, 39, 40, 41, 48>>,
         volumes  |-> << [exterior |-> TRUE, lo |-> 0, hi |-> 13] >> \o
                      [i \in 1..13 |-> [exterior |-> FALSE,
                                        lo |-> i - 1, hi |-> i]] ] >>

FourLevelsParams ==
    [ simple_units   |-> FourLevelsUnits,
      volume_records |-> [i \in 1..14 |-> Null],
      labels         |-> <<"[EXTERIOR]",
                           "World", "Envelope", "Shape1", "Shape2", "Shape1",
                           "Envelope", "World", "Envelope", "Shape1",
                           "Shape2", "Shape1", "Envelope", "World">>,
      extent         |-> 48,
      rect_arrays    |-> <<>> ]

\* Four concentric boxes about x = 14: the world (0,28) around an envelope
\* (7,21), around a Shape1 (8,20), around a Shape2 (9,19)
ConcentricUnits ==
    << [ surfaces |-> <<0, 7, 8, 9, 19, 20, 21, 28>>,
         volumes  |-> << [exterior |-> TRUE, lo |-> 0, hi |-> 7] >> \o
                      [i \in 1..7 |-> [exterior |-> FALSE,
                                       lo |-> i - 1, hi |-> i]] ] >>

ConcentricParams ==
    [ simple_units   |-> ConcentricUnits,
      volume_records |-> [i \in 1..8 |-> Null],
      labels         |-> <<"[EXTERIOR]",
                           "World", "Envelope", "Shape1", "Shape2", "Shape1",
                           "Envelope", "World">>,
      extent         |-> 28,
      rect_arrays    |-> <<>> ]

\* Universes of given numbers of surfaces and of volumes, for the indexer
\* alone: the planes are x = 1, 2, ... and the cells have no face
CountedParams(surfaces, volumes) ==
    [ simple_units   |-> [u \in 1..Len(surfaces) |->
                            [ surfaces |-> [i \in 1..surfaces[u] |-> i],
                              volumes  |-> [i \in 1..volumes[u] |->
                                              [exterior |-> FALSE,
                                               lo |-> Null, hi |-> Null]] ]],
      volume_records |-> <<>>,
      labels         |-> <<>>,
      extent         |-> 0,
      rect_arrays    |-> <<>> ]

\* A rectilinear array alone: three grids of planes and the background
\* volume
RectParams(record) ==
    [ simple_units   |-> <<>>,
      volume_records |-> <<>>,
      labels         |-> <<>>,
      extent         |-> 0,
      rect_arrays    |-> <<record>> ]

SimpleUnits == params.simple_units
PosRange == 0..params.extent

Universes == 0..(Len(SimpleUnits) - 1)
Unit(u) == SimpleUnits[u + 1]
LocalSurfaces(u) == 0..(Len(Unit(u).surfaces) - 1)
LocalVolumes(u) == 0..(Len(Unit(u).volumes) - 1)
SurfaceX(u, ls) == Unit(u).surfaces[ls + 1]
VolumeRecord(u, lv) == Unit(u).volumes[lv + 1]

\* params_.volume_records[global volume].daughter
daughter(gv) == params.volume_records[gv + 1]

\* id_to_label(volume).name
id_to_label(gv) == params.labels[gv + 1]

-----------------------------------------------------------------------------
(* detail::UnitIndexer: offsets are prefix sums of the per-universe counts *)

RECURSIVE Offset(_, _)
Offset(count, u) == IF u = 0 THEN 0 ELSE Offset(count, u - 1) + count[u]

num_surfaces == [u \in 1..Len(SimpleUnits) |-> Len(SimpleUnits[u].surfaces)]
num_volumes == [u \in 1..Len(SimpleUnits) |-> Len(SimpleUnits[u].volumes)]

global_surface(uni, surface) == Offset(num_surfaces, uni) + surface
global_volume(uni, volume) == Offset(num_volumes, uni) + volume

find_local(count, id) ==
    CHOOSE u \in Universes : Offset(count, u) <= id /\ id < Offset(count, u + 1)

\* Faulty variant of local_surface: the universe's offset is not taken off
local_surface_unshifted(id) ==
    [universe |-> find_local(num_surfaces, id), surface |-> id]

local_surface(id) ==
    LET u == find_local(num_surfaces, id)
    IN [universe |-> u, surface |-> id - Offset(num_surfaces, u)]

local_volume(id) ==
    LET u == find_local(num_volumes, id)
    IN [universe |-> u, volume |-> id - Offset(num_volumes, u)]

GlobalSurfaces == 0..(Offset(num_surfaces, Len(SimpleUnits)) - 1)
GlobalVolumes == 0..(Offset(num_volumes, Len(SimpleUnits)) - 1)

-----------------------------------------------------------------------------
(* SimpleUnitTracker, one universe.  A local id that is not an id of the   *)
(* universe names no surface and no cell: it has no face, no neighbour.    *)

\* Sense of a point off the plane x = a
calc_sense(x, a) == IF x > a THEN "outside" ELSE "inside"

Faces(u, lv) ==
    IF lv \notin LocalVolumes(u) THEN {}
    ELSE {VolumeRecord(u, lv).lo, VolumeRecord(u, lv).hi} \ {Null}

\* The cell's logical expression over the senses of its faces
InVolume(u, lv, sense_of) ==
    LET r == VolumeRecord(u, lv)
    IN IF r.exterior
       THEN sense_of[r.lo] = "inside" \/ sense_of[r.hi] = "outside"
       ELSE /\ (r.lo # Null => sense_of[r.lo] = "outside")
            /\ (r.hi # Null => sense_of[r.hi] = "inside")

LowestOr(S, default) ==
    IF S = {} THEN default ELSE CHOOSE v \in S : \A w \in S : v <= w

\* initialize(local): the cell holding pos; null on a surface or in no cell
TrackerInitialize(u, pos) ==
    LET on_surface == \E ls \in LocalSurfaces(u) : SurfaceX(u, ls) = pos
        sense_of == [ls \in LocalSurfaces(u) |-> calc_sense(pos, SurfaceX(u, ls))]
        found == {lv \in LocalVolumes(u) : InVolume(u, lv, sense_of)}
    IN [volume  |-> IF on_surface THEN Null ELSE LowestOr(found, Null),
        surface |-> NoSurface]

\* intersect(local, max_dist): nearest face at a strictly positive distance
\* not further than max_dist; the distance is max_dist when there is none
TrackerIntersect(u, local, max_dist) ==
    LET dist(ls) == (SurfaceX(u, ls) - local.pos) * local.dir
        hits == {ls \in Faces(u, local.volume) :
                    dist(ls) > 0 /\ dist(ls) <= max_dist}
    IN IF hits = {}
       THEN [distance |-> max_dist, surface |-> NoSurface]
       ELSE LET ls == CHOOSE a \in hits : \A b \in hits :
                         dist(a) < dist(b) \/ (dist(a) = dist(b) /\ a <= b)
            IN [distance |-> dist(ls),
                surface  |-> OnSurface(ls, calc_sense(local.pos, SurfaceX(u, ls)))]

\* cross_boundary(local): local.surface carries the sense after the crossing;
\* the neighbour is the cell on that surface whose expression holds
TrackerCrossBoundary(u, local) ==
    LET sense_of == [ls \in LocalSurfaces(u) |->
                        IF ls = local.surface.id THEN local.surface.sense
                        ELSE calc_sense(local.pos, SurfaceX(u, ls))]
        found == {lv \in LocalVolumes(u) :
                     /\ local.surface.id \in Faces(u, lv)
                     /\ InVolume(u, lv, sense_of)}
    IN [volume |-> LowestOr(found, Null), surface |-> local.surface]

\* safety(pos, volume): least distance to a face of the cell
TrackerSafety(u, pos, lv) ==
    LET ds == {Abs(pos - SurfaceX(u, ls)) : ls \in Faces(u, lv)}
    IN LowestOr(ds, no_intersection)

\* normal(pos, surface): every plane x = a has the normal +x
TrackerNormal(u, pos, ls) == 1

-----------------------------------------------------------------------------
(* RectArrayTracker, the array params_.rect_arrays[rid].  A position and a *)
(* direction are triples over the axes x, y, z; the components of a        *)
(* direction are fractions of one denominator.                             *)

Axes == 1..3

\* record_ and dims_ of the tracker constructed for the array rid
record_(rid) == params.rect_arrays[rid + 1]
\* Faulty variant of dims_: the planes are counted, not the cells
dims_as_planes(rid) == [ax \in Axes |-> Len(record_(rid).grid[ax])]

dims_(rid) == [ax \in Axes |-> Len(record_(rid).grid[ax]) - 1]

\* num_volumes(): one daughter per cell
RectNumVolumes(rid) == dims_(rid)[1] * dims_(rid)[2] * dims_(rid)[3]

\* HyperslabIndexer<3> and its inverse: the last axis runs fastest
VolumeIndexer(dims, coords) ==
    (coords[1] * dims[2] + coords[2]) * dims[3] + coords[3]

VolumeInverseIndexer(dims, index) ==
    << index \div (dims[2] * dims[3]),
       (index \div dims[3]) % dims[2],
       index % dims[3] >>

\* RaggedRightIndexer<3> over the planes of the three axes
SurfaceIndexer(dims, ax, plane) ==
    IF ax = 1 THEN plane
    ELSE IF ax = 2 THEN (dims[1] + 1) + plane
    ELSE (dims[1] + 1) + (dims[2] + 1) + plane

\* RaggedRightInverseIndexer<3>: the axis and the plane of a surface
SurfaceInverseIndexer(dims, index) ==
    IF index < dims[1] + 1 THEN <<1, index>>
    ELSE IF index < (dims[1] + 1) + (dims[2] + 1)
    THEN <<2, index - (dims[1] + 1)>>
    ELSE <<3, index - (dims[1] + 1) - (dims[2] + 1)>>

\* NonuniformGrid::find: the first plane not below the value, and the plane
\* before it unless the value is on that plane (planes count from 0)
GridFind(grid, value) ==
    LET iter == LowestOr({i \in 1..Len(grid) : grid[i] >= value}, Len(grid) + 1)
    IN IF iter <= Len(grid) /\ grid[iter] = value THEN iter - 1 ELSE iter - 2

\* Faulty variant of initialize: a position on a plane is not rejected, it
\* is given the cell that begins at the plane, or the last cell
RectInitializeOpen(rid, pos, ax, coords) ==
    LET grid(a) == record_(rid).grid[a]
        Bin(a) == Min(GridFind(grid(a), pos[a]), Len(grid(a)) - 2)
    IN IF \E a \in Axes : pos[a] < grid(a)[1] \/ pos[a] > grid(a)[Len(grid(a))]
       THEN [volume |-> record_(rid).background, surface |-> NoSurface]
       ELSE [volume  |-> VolumeIndexer(dims_(rid), [a \in Axes |-> Bin(a)]),
             surface |-> NoSurface]

\* The loop of initialize over the axes from ax on: the background volume
\* as soon as an axis has the position outside the grid or on a plane
RECURSIVE RectInitializeAxes(_, _, _, _)
RectInitializeAxes(rid, pos, ax, coords) ==
    IF ax > 3
    THEN [volume  |-> VolumeIndexer(dims_(rid), coords),
          surface |-> NoSurface]
    ELSE LET grid == record_(rid).grid[ax]
             Found(index) ==
                 IF grid[index + 1] # pos[ax]
                 THEN RectInitializeAxes(rid, pos, ax + 1,
                                         [coords EXCEPT ![ax] = index])
                 ELSE [volume  |-> record_(rid).background,
                       surface |-> NoSurface]
         IN IF pos[ax] < grid[1] \/ pos[ax] > grid[Len(grid)]
            THEN [volume  |-> record_(rid).background,
                  surface |-> NoSurface]
            ELSE Found(GridFind(grid, pos[ax]))

\* initialize(state)
RectArrayInitialize(rid, pos) ==
    RectInitializeAxes(rid, pos, 1, <<0, 0, 0>>)

\* The loop of intersect_impl over the axes from ax on; result is the
\* nearest plane so far
RECURSIVE RectIntersectAxes(_, _, _, _, _)
RectIntersectAxes(rid, state, coords, ax, result) ==
    IF ax > 3 THEN result
    ELSE LET d == state.dir.num[ax]
             target_coord == coords[ax] + (IF d > 0 THEN 1 ELSE 0)
             Closer(dist) ==
                 IF dist > 0 /\ dist < result.distance
                 THEN [distance |-> dist,
                       surface  |-> OnSurface(
                           SurfaceIndexer(dims_(rid), ax, target_coord),
                           IF d > 0 THEN "inside" ELSE "outside")]
                 ELSE result
         IN IF d = 0
            THEN RectIntersectAxes(rid, state, coords, ax + 1, result)
            ELSE RectIntersectAxes(rid, state, coords, ax + 1,
                    Closer(((record_(rid).grid[ax][target_coord + 1]
                                - state.pos[ax]) * state.dir.den) \div d))

\* intersect(state): intersect_impl with IsFinite
RectArrayIntersect(rid, state) ==
    LET Valid(result) ==
            IF result.distance < no_intersection THEN result
            ELSE [distance |-> no_intersection, surface |-> NoSurface]
    IN Valid(RectIntersectAxes(rid, state,
                 VolumeInverseIndexer(dims_(rid), state.volume), 1,
                 [distance |-> no_intersection, surface |-> NoSurface]))

\* cross_boundary(state): the cell on the other side of state.surface
RectArrayCrossBoundary(rid, state) ==
    LET coords == VolumeInverseIndexer(dims_(rid), state.volume)
        ax_idx == SurfaceInverseIndexer(dims_(rid), state.surface.id)[1]
        inc == IF state.surface.sense = "outside" THEN -1 ELSE 1
        new_surface == OnSurface(state.surface.id,
                                 flip_sense(state.surface.sense))
    IN IF \/ (coords[ax_idx] = 0 /\ inc = -1)
          \/ (coords[ax_idx] = dims_(rid)[ax_idx] - 1 /\ inc = 1)
       THEN [volume |-> record_(rid).background, surface |-> new_surface]
       ELSE [volume  |-> VolumeIndexer(dims_(rid),
                             [coords EXCEPT ![ax_idx] = @ + inc]),
             surface |-> new_surface]

\* Faulty variant of safety: the greatest distance to a plane of the cell
RectArrayFarthest(rid, pos, volid) ==
    LET Most(coords) ==
            -LowestOr({-Abs(pos[ax] - record_(rid).grid[ax][coords[ax] + i + 1]) :
                          ax \in Axes, i \in {0, 1}}, 0)
    IN Most(VolumeInverseIndexer(dims_(rid), volid))

\* safety(pos, volid): least distance to the two planes of the cell on each
\* axis
RectArraySafety(rid, pos, volid) ==
    LET Least(coords) ==
            LowestOr({Abs(pos[ax] - record_(rid).grid[ax][coords[ax] + i + 1]) :
                         ax \in Axes, i \in {0, 1}}, no_intersection)
    IN Least(VolumeInverseIndexer(dims_(rid), volid))

-----------------------------------------------------------------------------
(* Translator.  A real_type is a floating-point number: here a decimal one  *)
(* of Digits significant digits, held as an integer count of hundredths.   *)
(* A sum is rounded to the nearest such number, a tie to the even one.     *)

Digits == 2

\* The spacing of the floating-point numbers about n
RECURSIVE Quantum(_)
Quantum(n) == IF Abs(n) < 10 ^ Digits THEN 1 ELSE 10 * Quantum(Abs(n) \div 10)

\* The floating-point number nearest to n
Rounded(n) ==
    LET q == Quantum(n)
        lo == (Abs(n) \div q) * q
        r == Abs(n) - lo
        up == \/ 2 * r > q
              \/ (2 * r = q /\ (lo \div q) % 2 = 1)
    IN (IF n < 0 THEN -1 ELSE 1) * (IF up THEN lo + q ELSE lo)

\* Faulty variant of Translator: only the first component is translated
translate_first_only(point, trans_vec) ==
    [i \in DOMAIN point |->
        IF i = 1 THEN Rounded(point[i] + trans_vec[i]) ELSE point[i]]

\* Translator::operator()(point, trans_vec): the point afterwards
Translator(point, trans_vec) ==
    [i \in DOMAIN point |-> Rounded(point[i] + trans_vec[i])]

-----------------------------------------------------------------------------
(* LevelStateAccessor: the slot of (thread, level) in the flat state arrays *)

LevelStateAccessor(thread_id, level_id) == thread_id * max_level + level_id

Slots == 0..(Cardinality(AllThreads) * max_level - 1)

-----------------------------------------------------------------------------
(* OrangeTrackView.  A navigator value g holds the state arrays and the    *)
(* members of the view of one thread:                                      *)
(*   [states, next_step, next_surface]                                     *)

make_lsa(g, t) == LevelStateAccessor(t, g.states.level[t])

pos(g, t) == g.states.pos[make_lsa(g, t)]
dir(g, t) == g.states.dir[make_lsa(g, t)]
volume_id(g, t) == g.states.vol[make_lsa(g, t)]
surface_id(g, t) == g.states.surf[make_lsa(g, t)]

is_outside(g, t) == g.states.vol[LevelStateAccessor(t, 0)] = 0
is_on_boundary(g, t) == surface_id(g, t) # Null

has_next_step(g) == g.next_step # 0

\* Faulty variant of clear_next_step: the cached step survives
keep_next_step(g) == g

clear_next_step(g) ==
    [g EXCEPT !.next_step = 0,
              !.next_surface = IF CELERITAS_DEBUG THEN NoSurface ELSE @]

\* make_local_state(level): the tracker's view of one level
make_local_state(g, t, level) ==
    LET lsa == LevelStateAccessor(t, level)
    IN [pos     |-> g.states.pos[lsa],
        dir     |-> g.states.dir[lsa],
        volume  |-> local_volume(g.states.vol[lsa]).volume,
        surface |-> OnSurface(g.states.surf[lsa], g.states.sense[lsa])]

\* operator=(Initializer_t): descend from the top universe into daughters
RECURSIVE InitializeLevels(_, _, _, _, _)
InitializeLevels(s, t, init, uid, level) ==
    LET Descend(global_vol_id, lsa) ==
            LET Next(s1, next_uid) ==
                    IF next_uid # Null
                    THEN InitializeLevels(s1, t, init, next_uid, level + 1)
                    ELSE [s1 EXCEPT !.level[t] = level]
            IN Next([s EXCEPT !.vol[lsa] = global_vol_id,
                              !.pos[lsa] = init.pos,
                              !.dir[lsa] = init.dir,
                              !.universe[lsa] = uid,
                              !.surf[lsa] = Null,
                              !.sense[lsa] = "inside",
                              !.boundary[lsa] = "exiting"],
                    daughter(global_vol_id))
    IN Descend(global_volume(uid, TrackerInitialize(uid, init.pos).volume),
               LevelStateAccessor(t, level))

Initialize(g, t, init) ==
    LET g1 == clear_next_step(g)
    IN [g1 EXCEPT !.states =
            InitializeLevels(g1.states, t, init, top_universe_id, 0)]

\* operator=(Initializer_t) at a position that is in no cell of a universe:
\* CELER_ASSERT(tinit.volume) is compiled out, the null volume goes through
\* global_volume into the level's slot, and the daughter is read from
\* volume_records at that id.  An id that is no volume's reads out of
\* bounds: the daughter read is any universe or none.  A level at or above
\* max_level has its slot in the next thread's levels; the descent is
\* followed to the end of the state arrays.
RECURSIVE LostLevels(_, _, _, _, _)
LostLevels(s, t, init, uid, level) ==
    LET lsa == LevelStateAccessor(t, level)
        Descend(global_vol_id) ==
            LET Next(s1, daughters) ==
                    UNION {IF next_uid # Null
                           THEN LostLevels(s1, t, init, next_uid, level + 1)
                           ELSE {[s1 EXCEPT !.level[t] = level]} :
                              next_uid \in daughters}
            IN Next([s EXCEPT !.vol[lsa] = global_vol_id,
                              !.pos[lsa] = init.pos,
                              !.dir[lsa] = init.dir,
                              !.universe[lsa] = uid,
                              !.surf[lsa] = Null,
                              !.sense[lsa] = "inside",
                              !.boundary[lsa] = "exiting"],
                    IF global_vol_id \in GlobalVolumes
                    THEN {daughter(global_vol_id)}
                    ELSE Universes \cup {Null})
    IN IF lsa \notin Slots
       THEN {[s EXCEPT !.level[t] = level - 1]}
       ELSE Descend(global_volume(uid, TrackerInitialize(uid, init.pos).volume))

\* The navigators that operator=(Initializer_t) may leave
InitializeLost(g, t, init) ==
    {[clear_next_step(g) EXCEPT !.states = s] :
        s \in LostLevels(g.states, t, init, top_universe_id, 0)}

\* operator=(DetailedInitializer): the levels below the parent's level are
\* copied from the parent, slot by slot; init.dir is not read
InitializeFrom(g, t, other, newdir) ==
    LET copied == 0..(g.states.level[other] - 1)
        Copy(arr) ==
            [i \in Slots |->
                IF \E l \in copied : i = LevelStateAccessor(t, l)
                THEN arr[i - LevelStateAccessor(t, 0)
                           + LevelStateAccessor(other, 0)]
                ELSE arr[i]]
    IN clear_next_step(
         [g EXCEPT !.states.vol = Copy(@),
                   !.states.pos = Copy(@),
                   !.states.dir = Copy(@),
                   !.states.surf = Copy(@),
                   !.states.sense = Copy(@),
                   !.states.boundary = Copy(@),
                   !.states.level[t] = g.states.level[other]])

\* The universes whose trackers the loop of find_next_step_impl queries, in
\* the order of its iterations
RECURSIVE QueriedUniverses(_, _, _, _)
QueriedUniverses(g, t, level, check_uid) ==
    <<check_uid>> \o
        (IF check_uid # g.states.universe[make_lsa(g, t)]
         THEN QueriedUniverses(g, t, level + 1,
                  daughter(g.states.vol[LevelStateAccessor(t, level)]))
         ELSE <<>>)

\* Faulty variant of the loop of find_next_step_impl: on equal distances the
\* innermost level's surface is kept
RECURSIVE IntersectInnermostWins(_, _, _, _, _, _)
IntersectInnermostWins(g, t, max_step, level, check_uid, min) ==
    LET Closer(isect) ==
            IF \/ isect.distance < min.step
               \/ (isect.distance = min.step /\ min.uid # Null)
            THEN [step |-> isect.distance, surface |-> isect.surface,
                  uid |-> check_uid]
            ELSE min
        Descend(min1) ==
            IF check_uid # g.states.universe[make_lsa(g, t)]
            THEN IntersectInnermostWins(g, t, max_step, level + 1,
                     daughter(g.states.vol[LevelStateAccessor(t, level)]), min1)
            ELSE min1
    IN Descend(Closer(TrackerIntersect(check_uid,
                                       make_local_state(g, t, level),
                                       max_step)))

\* find_next_step_impl(max_step): nearest intersection over the levels from
\* the top universe down to the universe of the current level
RECURSIVE IntersectLevels(_, _, _, _, _, _)
IntersectLevels(g, t, max_step, level, check_uid, min) ==
    LET Closer(isect) ==
            IF isect.distance < min.step
            THEN [step |-> isect.distance, surface |-> isect.surface,
                  uid |-> check_uid]
            ELSE min
        Descend(min1) ==
            LET next_check_uid ==
                    daughter(g.states.vol[LevelStateAccessor(t, level)])
                current_uid == g.states.universe[make_lsa(g, t)]
            IN IF check_uid # current_uid
               THEN IntersectLevels(g, t, max_step, level + 1, next_check_uid,
                                    min1)
               ELSE min1
    IN Descend(Closer(TrackerIntersect(check_uid,
                                       make_local_state(g, t, level),
                                       max_step)))

find_next_step_impl(g, t, max_step) ==
    LET Store(min) ==
            [g EXCEPT !.next_step = min.step,
                      !.next_surface =
                         IF min.uid # Null
                         THEN OnSurface(global_surface(min.uid, min.surface.id),
                                        min.surface.sense)
                         ELSE min.surface]
    IN Store(IntersectLevels(g, t, max_step, 0, top_universe_id,
                 [step |-> max_step, surface |-> NoSurface, uid |-> Null]))

Propagation(distance, boundary) == [distance |-> distance, boundary |-> boundary]

\* What find_next_step returns from the cached step
CachedStep(g) == Propagation(g.next_step, g.next_surface.id # Null)

\* find_next_step(): the navigator afterwards and the Propagation returned
find_next_step(g, t) ==
    IF g.states.boundary[make_lsa(g, t)] = "reentrant"
    THEN [geo |-> g, result |-> Propagation(0, TRUE)]
    ELSE LET Find(g1) ==
                 IF ~has_next_step(g1)
                 THEN find_next_step_impl(g1, t, no_intersection) ELSE g1
             Answer(g2) == [geo |-> g2, result |-> CachedStep(g2)]
         IN Answer(Find(IF g.next_surface.id = Null
                             /\ g.next_step # no_intersection
                        THEN clear_next_step(g) ELSE g))

\* find_next_step(max_step)
find_next_step_max(g, t, max_step) ==
    IF g.states.boundary[make_lsa(g, t)] = "reentrant"
    THEN [geo |-> g, result |-> Propagation(0, TRUE)]
    ELSE IF g.next_step > max_step
    THEN [geo |-> g, result |-> Propagation(max_step, FALSE)]
    ELSE LET Find(g1) ==
                 IF ~has_next_step(g1)
                 THEN find_next_step_impl(g1, t, max_step) ELSE g1
             Answer(g2) == [geo |-> g2, result |-> CachedStep(g2)]
         IN Answer(Find(IF g.next_surface.id = Null /\ g.next_step < max_step
                        THEN clear_next_step(g) ELSE g))

\* Faulty variant of move_to_boundary: the track is moved but the surface it
\* lands on is not recorded
move_without_surface(g, t) ==
    LET lsa == make_lsa(g, t)
    IN clear_next_step(
         [g EXCEPT !.states.pos[lsa] = @ + g.next_step * g.states.dir[lsa]])

\* Faulty variant of move_to_boundary: the track is also put into the cell
\* on the far side of the surface
move_into_neighbour(g, t) ==
    LET lsa == make_lsa(g, t)
        beyond == TrackerCrossBoundary(g.states.universe[lsa],
                      [pos     |-> g.states.pos[lsa],
                       dir     |-> g.states.dir[lsa],
                       volume  |-> local_volume(g.states.vol[lsa]).volume,
                       surface |-> OnSurface(
                                     local_surface(g.next_surface.id).surface,
                                     flip_sense(g.next_surface.sense))])
    IN clear_next_step(
         [g EXCEPT !.states.pos[lsa] = @ + g.next_step * g.states.dir[lsa],
                   !.states.surf[lsa] = g.next_surface.id,
                   !.states.sense[lsa] = g.next_surface.sense,
                   !.states.vol[lsa] =
                       global_volume(g.states.universe[lsa], beyond.volume)])

\* move_to_boundary()
move_to_boundary(g, t) ==
    LET lsa == make_lsa(g, t)
        g1 == [g EXCEPT !.states.pos[lsa] = @ + g.next_step * g.states.dir[lsa],
                        !.states.surf[lsa] = g.next_surface.id,
                        !.states.sense[lsa] = g.next_surface.sense]
    IN clear_next_step(g1)

\* Faulty variant of move_internal(dist): the cached step is not consumed
move_internal_keeping_step(g, t, dist) ==
    LET lsa == make_lsa(g, t)
    IN [g EXCEPT !.states.pos[lsa] = @ + dist * g.states.dir[lsa],
                 !.states.surf[lsa] = Null]

\* move_internal(dist)
move_internal(g, t, dist) ==
    LET lsa == make_lsa(g, t)
    IN [g EXCEPT !.states.pos[lsa] = @ + dist * g.states.dir[lsa],
                 !.next_step = IF @ = no_intersection THEN @ ELSE @ - dist,
                 !.states.surf[lsa] = Null]

\* move_internal(pos)
move_internal_pos(g, t, newpos) ==
    LET lsa == make_lsa(g, t)
    IN clear_next_step([g EXCEPT !.states.pos[lsa] = newpos,
                                 !.states.surf[lsa] = Null])

\* Faulty variant of cross_boundary: the track keeps its volume
cross_keeping_volume(g, t) ==
    LET lsa == make_lsa(g, t)
    IN [g EXCEPT !.states.sense[lsa] = flip_sense(g.states.sense[lsa]),
                 !.states.boundary[lsa] = "exiting"]

\* cross_boundary()
cross_boundary(g, t) ==
    LET lsa == make_lsa(g, t)
        local == [pos     |-> pos(g, t),
                  dir     |-> dir(g, t),
                  volume  |-> g.states.vol[lsa],
                  surface |-> OnSurface(g.states.surf[lsa],
                                        flip_sense(g.states.sense[lsa]))]
        tinit == TrackerCrossBoundary(0, local)
        init == IF ~CELERITAS_DEBUG /\ tinit.volume = Null
                THEN [volume |-> 0, surface |-> NoSurface]
                ELSE tinit
    IN IF g.states.boundary[lsa] = "reentrant"
       THEN [g EXCEPT !.states.boundary[lsa] = "exiting"]
       ELSE [g EXCEPT !.states.vol[lsa] = init.volume,
                      !.states.surf[lsa] = init.surface.id,
                      !.states.sense[lsa] = init.surface.sense,
                      !.states.boundary[lsa] = "exiting"]

\* Faulty variant of set_dir: the boundary intent is never flipped
set_dir_no_latch(g, t, newdir) ==
    clear_next_step([g EXCEPT !.states.dir[make_lsa(g, t)] = newdir])

\* Faulty variant of set_dir: the boundary intent is flipped whenever the
\* track is on a boundary
set_dir_always_latch(g, t, newdir) ==
    LET lsa == make_lsa(g, t)
    IN clear_next_step(
         [g EXCEPT !.states.boundary[lsa] = IF is_on_boundary(g, t)
                                            THEN flip_boundary(@) ELSE @,
                   !.states.dir[lsa] = newdir])

\* set_dir(newdir)
set_dir(g, t, newdir) ==
    LET lsa == make_lsa(g, t)
        normal == TrackerNormal(0, pos(g, t), surface_id(g, t))
        flipped == /\ is_on_boundary(g, t)
                   /\ (normal * newdir >= 0) # (normal * dir(g, t) >= 0)
    IN clear_next_step(
         [g EXCEPT !.states.boundary[lsa] = IF flipped THEN flip_boundary(@)
                                            ELSE @,
                   !.states.dir[lsa] = newdir])

\* find_safety()
find_safety(g, t) ==
    IF g.states.surf[make_lsa(g, t)] # Null THEN 0
    ELSE TrackerSafety(0, pos(g, t), volume_id(g, t))

-----------------------------------------------------------------------------
(* The state of the model *)

Geo(t) == [states       |-> states,
           next_step    |-> view[t].next_step,
           next_surface |-> view[t].next_surface]

\* The navigator of thread t in the next state
GeoNext(t) == [states       |-> states',
               next_step    |-> view'[t].next_step,
               next_surface |-> view'[t].next_surface]

\* Write a navigator value back to the state arrays and the view of thread t
PutGeo(g, t) ==
    /\ states' = g.states
    /\ view' = [view EXCEPT ![t] = [next_step    |-> g.next_step,
                                    next_surface |-> g.next_surface]]

IdleProp == [driver |-> [minimum_step |-> 1, delta_intersection |-> 1,
                         advance |-> {1}, zero |-> FALSE],
             step |-> 0, remaining |-> 0, remaining_substeps |-> 0,
             result |-> Propagation(0, FALSE), pos |-> 0, mom |-> 1]

\* Navigator-only linear propagation by at most step: to the boundary that
\* find_next_step() reports when it is within the step, else by the step
LinearPropagation(g, t, step) ==
    LET Land(f) ==
            IF g.states.boundary[make_lsa(g, t)] = "reentrant"
            THEN [found |-> f.result, result |-> f.result, geo |-> g]
            ELSE IF f.result.boundary /\ f.result.distance <= step
            THEN [found |-> f.result, result |-> f.result,
                  geo |-> move_to_boundary(f.geo, t)]
            ELSE [found |-> f.result, result |-> Propagation(step, FALSE),
                  geo |-> move_internal(f.geo, t, step)]
        Record(landed) ==
            [found |-> landed.found, on_boundary |-> is_on_boundary(g, t),
             result |-> landed.result, states |-> landed.geo.states]
    IN Record(Land(find_next_step(g, t)))

NoLinear == [found |-> Propagation(0, FALSE), on_boundary |-> FALSE,
             result |-> Propagation(0, FALSE), states |-> <<>>]

\* History: the last call; whether a find_next_step has answered (and
\* reported a boundary) since the cached step was last invalidated; for a
\* propagation, the branch of the last iteration, the iterations and the
\* accepted substeps so far, the momentum at entry, and for a stuck track
\* the position it was bumped from; for a propagation in a zero field, what
\* navigator-only linear propagation does from the same state; for a
\* secondary, the direction it was given; for a track on a surface, the
\* direction it had when it was last moved onto the surface or across it;
\* for a propagation, the momentum at entry or of the last substep whose
\* momentum was committed, and at its return the length added to the
\* distance without moving the track, and the state of the navigator at the
\* call of move_to_boundary
\* The ids given to the unit indexer and the ids it returned
NoIndex == [universe |-> Null, local |-> Null, global |-> Null]

\* The state given to the rectilinear-array tracker and what it returned
NoRect == [pos |-> <<0, 0, 0>>, dir |-> [num |-> <<1, 0, 0>>, den |-> 1],
           init |-> [volume |-> Null, surface |-> NoSurface],
           safety |-> 0,
           isect |-> [distance |-> 0, surface |-> NoSurface],
           cross |-> [volume |-> Null, surface |-> NoSurface]]

\* The point and the vector given to the translator, and the point now
NoTranslate == [given |-> <<0, 0, 0>>, point |-> <<0, 0, 0>>,
                trans_vec |-> <<0, 0, 0>>]

\* TrackingResult of the tracking loop, with the point the loop started at
NoTrack == [start |-> [pos |-> 0, dir |-> 1], volumes |-> <<>>, distances |-> <<>>]

\* The navigator as move_to_boundary finds it when the propagator calls it,
\* and what the last find_next_step of the loop had returned
NoLanding == [called |-> FALSE, intent |-> "exiting", next_step |-> 0,
              next_surface |-> NoSurface, found |-> Propagation(0, FALSE)]

NoHist == [op |-> "none", queried |-> FALSE, hit |-> FALSE,
           branch |-> "none", iterations |-> 0, accepted |-> 0,
           stuck |-> FALSE, start_mom |-> 1, bump_from |-> 0,
           linear |-> NoLinear, given_dir |-> 1, track |-> NoTrack,
           index |-> NoIndex, rect |-> NoRect, solo |-> <<>>,
           translate |-> NoTranslate, arrived |-> 0, committed |-> 1,
           charged |-> 0, landing |-> NoLanding]

\* The calls that neither move the track nor cross a surface
Staying == {"set_dir", "find_next_step", "find_next_step_max", "find_safety"}

Called(op, queried, hit) ==
    [NoHist EXCEPT !.op = op, !.queried = queried, !.hit = hit,
                   !.arrived = IF op \in Staying THEN hist.arrived ELSE 0]

Constructed ==
    /\ states = [vol      |-> [i \in Slots |-> Null],
                 pos      |-> [i \in Slots |-> 0],
                 dir      |-> [i \in Slots |-> 1],
                 universe |-> [i \in Slots |-> Null],
                 surf     |-> [i \in Slots |-> Null],
                 sense    |-> [i \in Slots |-> "inside"],
                 boundary |-> [i \in Slots |-> "exiting"],
                 level    |-> [t \in AllThreads |-> 0]]
    /\ view = [t \in AllThreads |->
                 [next_step |-> 0, next_surface |-> NoSurface]]
    /\ pc = "init"
    /\ prop = IdleProp
    /\ hist = NoHist

Init == params = NestedParams /\ Constructed

-----------------------------------------------------------------------------
(* Calls of the navigator by its user, each under its preconditions *)

\* Positions a track may be initialized at: in a cell at every level
RECURSIVE CanInitialize(_, _)
CanInitialize(uid, p) ==
    LET tinit == TrackerInitialize(uid, p)
    IN /\ tinit.volume # Null
       /\ LET next_uid == daughter(global_volume(uid, tinit.volume))
          IN next_uid # Null => CanInitialize(next_uid, p)

\* A track is initialized once, in the slot as constructed
NavInitialize(t) ==
    /\ pc = "init"
    /\ \E p \in PosRange, d \in Dirs :
          /\ CanInitialize(top_universe_id, p)
          /\ \E g \in {Initialize(Geo(t), t, [pos |-> p, dir |-> d])} :
                PutGeo(g, t)
    /\ pc' = "idle"
    /\ hist' = Called("initialize", FALSE, FALSE)
    /\ prop' = IdleProp
    /\ UNCHANGED params

NavFindNextStep(t) ==
    /\ pc = "idle"
    /\ \E r \in {find_next_step(Geo(t), t)} :
          /\ PutGeo(r.geo, t)
          /\ hist' = Called("find_next_step", TRUE, hist.hit \/ r.result.boundary)
    /\ prop' = IdleProp
    /\ UNCHANGED pc
    /\ UNCHANGED params

NavFindNextStepMax(t) ==
    /\ pc = "idle"
    /\ \E max_step \in 1..MaxStep :
          \E r \in {find_next_step_max(Geo(t), t, max_step)} :
             /\ PutGeo(r.geo, t)
             /\ hist' = Called("find_next_step_max", TRUE, hist.hit \/ r.result.boundary)
    /\ prop' = IdleProp
    /\ UNCHANGED pc
    /\ UNCHANGED params

NavFindSafety(t) ==
    /\ pc = "idle"
    /\ hist' = Called("find_safety", hist.queried, hist.hit)
    /\ prop' = IdleProp
    /\ UNCHANGED <<states, view, pc>>
    /\ UNCHANGED params

CanMoveToBoundary(g, t) ==
    /\ g.states.boundary[make_lsa(g, t)] # "reentrant"
    /\ has_next_step(g)
    /\ g.next_surface.id # Null

NavMoveToBoundary(t) ==
    /\ pc = "idle"
    /\ CanMoveToBoundary(Geo(t), t)
    /\ \E g \in {move_to_boundary(Geo(t), t)} :
          /\ pos(g, t) \in PosRange
          /\ PutGeo(g, t)
    /\ hist' = [Called("move_to_boundary", FALSE, FALSE)
                   EXCEPT !.arrived = dir(Geo(t), t)]
    /\ prop' = IdleProp
    /\ UNCHANGED pc
    /\ UNCHANGED params

CanMoveInternal(g, t, dist) ==
    /\ has_next_step(g)
    /\ dist > 0 /\ dist <= g.next_step
    /\ (dist # g.next_step \/ g.next_surface.id = Null)

NavMoveInternal(t) ==
    /\ pc = "idle"
    /\ \E dist \in 1..MaxStep :
          /\ CanMoveInternal(Geo(t), t, dist)
          /\ \E g \in {move_internal(Geo(t), t, dist)} :
                /\ pos(g, t) \in PosRange
                /\ PutGeo(g, t)
          /\ hist' = Called("move_internal", hist.queried, hist.hit)
    /\ prop' = IdleProp
    /\ UNCHANGED pc
    /\ UNCHANGED params

\* move_internal(pos): the caller keeps the new point within the safety
NavMoveInternalPos(t) ==
    /\ pc = "idle"
    /\ \E p \in PosRange :
          /\ Abs(p - pos(Geo(t), t)) < find_safety(Geo(t), t)
          /\ \E g \in {move_internal_pos(Geo(t), t, p)} : PutGeo(g, t)
    /\ hist' = Called("move_internal_pos", FALSE, FALSE)
    /\ prop' = IdleProp
    /\ UNCHANGED pc
    /\ UNCHANGED params

CanCrossBoundary(g, t) == is_on_boundary(g, t) /\ ~has_next_step(g)

NavCrossBoundary(t) ==
    /\ pc = "idle"
    /\ CanCrossBoundary(Geo(t), t)
    /\ \E g \in {cross_boundary(Geo(t), t)} : PutGeo(g, t)
    /\ hist' = [Called(IF states.boundary[make_lsa(Geo(t), t)] = "reentrant"
                       THEN "cross_boundary (reentrant)" ELSE "cross_boundary",
                       FALSE, FALSE)
                   EXCEPT !.arrived = dir(Geo(t), t)]
    /\ prop' = IdleProp
    /\ UNCHANGED pc
    /\ UNCHANGED params

NavSetDir(t) ==
    /\ pc = "idle"
    /\ \E d \in Dirs : \E g \in {set_dir(Geo(t), t, d)} : PutGeo(g, t)
    /\ hist' = Called("set_dir", FALSE, FALSE)
    /\ prop' = IdleProp
    /\ UNCHANGED pc
    /\ UNCHANGED params

\* A track is initialized at a position that is on a surface or in no cell
\* of some universe on the way down; the caller is to drop the track
NavInitializeLost(t) ==
    /\ pc = "init"
    /\ \E p \in PosRange, d \in Dirs :
          /\ ~CanInitialize(top_universe_id, p)
          /\ \E g \in InitializeLost(Geo(t), t, [pos |-> p, dir |-> d]) :
                PutGeo(g, t)
    /\ pc' = "done"
    /\ hist' = Called("initialize (lost)", FALSE, FALSE)
    /\ prop' = IdleProp
    /\ UNCHANGED params

\* A secondary is created in its own thread from the track, which is
\* initialized, and a new direction; the track is then done
NavInitializeSecondary(t) ==
    /\ pc = "idle"
    /\ \E s \in Secondaries, d \in Dirs :
          /\ \E g \in {InitializeFrom(Geo(s), s, t, d)} : PutGeo(g, s)
          /\ hist' = [Called("initialize_secondary", FALSE, FALSE)
                         EXCEPT !.given_dir = d]
    /\ pc' = "done"
    /\ prop' = IdleProp
    /\ UNCHANGED params

\* VecgeomTestBase::track, one pass of its loop in three steps.  The volume
\* the track is in and the distance to the next boundary are pushed onto the
\* result; the loop runs while the track is inside, and once before it for
\* a track that starts outside; without a boundary it is left.
Pushed(g, t, next) ==
    [start     |-> IF hist.op = "initialize"
                   THEN [pos |-> pos(g, t), dir |-> dir(g, t)]
                   ELSE hist.track.start,
     volumes   |-> Append(hist.track.volumes,
                          IF is_outside(g, t) THEN "[OUTSIDE]"
                          ELSE id_to_label(volume_id(g, t))),
     distances |-> Append(hist.track.distances, next.distance)]

TrackFind(t) ==
    /\ pc = "idle"
    /\ ~is_outside(Geo(t), t) \/ hist.op = "initialize"
    /\ \E r \in {find_next_step(Geo(t), t)} :
          /\ PutGeo(r.geo, t)
          /\ hist' = [Called("track_find", TRUE, r.result.boundary)
                         EXCEPT !.track = Pushed(Geo(t), t, r.result)]
          /\ pc' = IF r.result.boundary THEN "found" ELSE "done"
    /\ prop' = IdleProp
    /\ UNCHANGED params

\* geo.move_to_boundary()
TrackMove(t) ==
    /\ pc = "found"
    /\ \E g \in {move_to_boundary(Geo(t), t)} :
          /\ pos(g, t) \in PosRange
          /\ PutGeo(g, t)
    /\ hist' = [Called("track_move", FALSE, FALSE) EXCEPT !.track = hist.track]
    /\ pc' = "arrived"
    /\ prop' = IdleProp
    /\ UNCHANGED params

\* geo.cross_boundary(), and round the loop
TrackCross(t) ==
    /\ pc = "arrived"
    /\ \E g \in {cross_boundary(Geo(t), t)} : PutGeo(g, t)
    /\ hist' = [Called("track_cross", FALSE, FALSE) EXCEPT !.track = hist.track]
    /\ pc' = "idle"
    /\ prop' = IdleProp
    /\ UNCHANGED params

\* A call of the unit indexer of the geometry, with valid ids
IndexGlobalSurface ==
    /\ pc = "init"
    /\ \E u \in Universes : \E i \in LocalSurfaces(u) :
          hist' = [Called("global_surface", FALSE, FALSE) EXCEPT
                      !.index = [universe |-> u, local |-> i,
                                 global |-> global_surface(u, i)]]
    /\ pc' = "done"
    /\ UNCHANGED <<params, states, view, prop>>

IndexGlobalVolume ==
    /\ pc = "init"
    /\ \E u \in Universes : \E i \in LocalVolumes(u) :
          hist' = [Called("global_volume", FALSE, FALSE) EXCEPT
                      !.index = [universe |-> u, local |-> i,
                                 global |-> global_volume(u, i)]]
    /\ pc' = "done"
    /\ UNCHANGED <<params, states, view, prop>>

IndexLocalSurface ==
    /\ pc = "init"
    /\ \E id \in GlobalSurfaces : \E l \in {local_surface(id)} :
          hist' = [Called("local_surface", FALSE, FALSE) EXCEPT
                      !.index = [universe |-> l.universe, local |-> l.surface,
                                 global |-> id]]
    /\ pc' = "done"
    /\ UNCHANGED <<params, states, view, prop>>

IndexLocalVolume ==
    /\ pc = "init"
    /\ \E id \in GlobalVolumes : \E l \in {local_volume(id)} :
          hist' = [Called("local_volume", FALSE, FALSE) EXCEPT
                      !.index = [universe |-> l.universe, local |-> l.volume,
                                 global |-> id]]
    /\ pc' = "done"
    /\ UNCHANGED <<params, states, view, prop>>

\* Calls of the tracker of the rectilinear array 0.  Lengths are in half
\* units, so that the grid [0,3]x[0,4]x[0,100] of BIHTraversalTest.grid has
\* its planes at even abscissas and the points of the test are
\* (1 + 2i, 1 + 2j, 60).
GridOfTest ==
    [grid |-> << <<0, 2, 4, 6>>, <<0, 2, 4, 6, 8>>, <<0, 200>> >>,
     background |-> Null]

NonuniformArray ==
    [grid |-> << <<0, 3, 5>>, <<0, 4>>, <<0, 2, 6>> >>,
     background |-> Null]

PointsOfTest == {<<1 + 2 * i, 1 + 2 * j, 60>> : i \in 0..2, j \in 0..3}

\* Abscissas on an axis: every plane, a unit before the first and after the
\* last, and between two planes every abscissa up to three units in
AxisPoints(grid) ==
    {grid[1] - 1, grid[Len(grid)] + 1} \cup
    {x \in grid[1]..grid[Len(grid)] :
        \E i \in 1..Len(grid) : x - grid[i] \in 0..3}

RectPoints ==
    PointsOfTest \cup
    {<<x, y, z>> : x \in AxisPoints(record_(0).grid[1]),
                   y \in AxisPoints(record_(0).grid[2]),
                   z \in AxisPoints(record_(0).grid[3])}

\* Unit directions: the triples of fractions whose squares sum to one, of
\* denominator 1, 3 or 5
UnitDirections ==
    {[num |-> <<a, b, c>>, den |-> n] :
        <<a, b, c, n>> \in {q \in (-4..4) \X (-4..4) \X (-4..4) \X {1, 3, 5} :
            q[1] * q[1] + q[2] * q[2] + q[3] * q[3] = q[4] * q[4]}}

\* The tracker is asked for the cell of a point
RectInitialize ==
    /\ pc = "init"
    /\ \E p \in RectPoints :
          hist' = [Called("rect_initialize", FALSE, FALSE) EXCEPT
                      !.rect = [NoRect EXCEPT
                                   !.pos = p,
                                   !.init = RectArrayInitialize(0, p)]]
    /\ pc' = "done"
    /\ UNCHANGED <<params, states, view, prop>>

\* The tracker is asked for the safety and for the next plane of a track in
\* the cell it was initialized in
RectIntersect ==
    /\ pc = "init"
    /\ \E p \in RectPoints, d \in UnitDirections :
          \E init \in {RectArrayInitialize(0, p)} :
             /\ init.volume # record_(0).background
             /\ hist' = [Called("rect_intersect", FALSE, FALSE) EXCEPT
                            !.rect = [NoRect EXCEPT
                                        !.pos = p, !.dir = d, !.init = init,
                                        !.safety = RectArraySafety(0, p, init.volume),
                                        !.isect = RectArrayIntersect(0,
                                            [pos |-> p, dir |-> d,
                                             volume |-> init.volume,
                                             surface |-> NoSurface])]]
    /\ pc' = "done"
    /\ UNCHANGED <<params, states, view, prop>>

\* The track is taken to the plane found and the tracker is asked for the
\* cell behind it, the sense flipped as OrangeTrackView::cross_boundary
\* flips it before it calls the tracker
RectCrossBoundary ==
    /\ pc = "done"
    /\ hist.op = "rect_intersect"
    /\ hist.rect.isect.surface.id # Null
    /\ hist' = [hist EXCEPT
                  !.op = "rect_cross_boundary",
                  !.rect.cross = RectArrayCrossBoundary(0,
                      [pos     |-> hist.rect.pos,
                       dir     |-> hist.rect.dir,
                       volume  |-> hist.rect.init.volume,
                       surface |-> OnSurface(
                                     hist.rect.isect.surface.id,
                                     flip_sense(hist.rect.isect.surface.sense))])]
    /\ pc' = "crossed"
    /\ UNCHANGED <<params, states, view, prop>>

-----------------------------------------------------------------------------
(* FieldPropagator.  The ODE state is a position and the direction of the  *)
(* momentum (its magnitude is conserved by the driver).                    *)

max_substeps == 128

\* The drivers a propagator is built on: their options, and the curved
\* lengths their step control may take (never more than the length asked)
Drivers == [minimum_step : 1..MaxMinStep, delta_intersection : 1..MaxDelta,
            advance : {1..MaxStep}, zero : {FALSE}]

\* The drivers of a zero field: the substep is the straight segment of the
\* length asked, the momentum is unchanged
ZeroDrivers == [minimum_step : 1..MaxMinStep,
                delta_intersection : 1..MaxDelta,
                advance : {{MaxStep}}, zero : {TRUE}]

\* A driver of fixed substep, and a step it cannot finish in max_substeps
LongDriver == [minimum_step |-> 1, delta_intersection |-> 1,
               advance |-> {LongAdvance}, zero |-> FALSE]

LongStep == LongAdvance * (max_substeps + 1)

bump_distance == prop.driver.minimum_step

\* detail::make_chord(src, dst)
make_chord(src, dst) ==
    [length |-> Abs(dst - src), dir |-> IF dst >= src THEN 1 ELSE -1]

\* detail::calc_miss_distance: from the intercept on the chord line to target
calc_miss_distance(p, d, distance, target) == Abs(p + distance * d - target)

\* detail::is_intercept_close
is_intercept_close(p, d, distance, target, tolerance) ==
    calc_miss_distance(p, d, distance, target) <= tolerance

\* The propagator is run on tracks that a bump cannot take out of PosRange
InWindow(p) == p - bump_distance >= 0 /\ p + bump_distance <= MaxPos

\* What a driver may return from advance(remaining, state): a curved length
\* h in 1..remaining, an end point at chord distance 1..h on either side,
\* and a new momentum direction
DriverResults(h) ==
    IF prop.driver.zero
    THEN {[step |-> h, state |-> [pos |-> prop.pos + h * prop.mom,
                                  mom |-> prop.mom]]}
    ELSE {[step |-> h, state |-> [pos |-> prop.pos + sgn * c, mom |-> m]] :
             c \in 1..h, sgn \in Dirs, m \in Dirs}

DriverAdvance ==
    {r \in UNION {DriverResults(Min(a, prop.remaining)) :
                     a \in prop.driver.advance} :
        InWindow(r.state.pos)}

\* Faulty variant of the trial: the step the probe has found is not kept
TrialForgetting(t, substep) ==
    LET Probe(chord) ==
            LET Made(probe) ==
                    [substep |-> substep, chord |-> chord,
                     geo |-> clear_next_step(probe.geo),
                     linear_step |-> probe.result]
            IN Made(find_next_step_max(set_dir(Geo(t), t, chord.dir), t,
                        chord.length + prop.driver.delta_intersection))
    IN Probe(make_chord(prop.pos, substep.state.pos))

\* One trial: the substep, its chord, and the navigator's probe of the chord
Trial(t, substep) ==
    LET Probe(chord) ==
            LET Made(probe) ==
                    [substep |-> substep, chord |-> chord,
                     geo |-> probe.geo, linear_step |-> probe.result]
            IN Made(find_next_step_max(set_dir(Geo(t), t, chord.dir), t,
                        chord.length + prop.driver.delta_intersection))
    IN Probe(make_chord(prop.pos, substep.state.pos))

\* Which branch of the loop body a trial takes
Dispatch(tr) ==
    IF ~tr.linear_step.boundary THEN "accept"
    ELSE IF prop.result.boundary /\ tr.linear_step.distance < bump_distance
    THEN "reentry"
    ELSE IF tr.substep.step * tr.linear_step.distance
               <= prop.driver.minimum_step * tr.chord.length
    THEN "near"
    ELSE IF is_intercept_close(prop.pos, tr.chord.dir, tr.linear_step.distance,
                               tr.substep.state.pos, prop.driver.delta_intersection)
    THEN "close"
    ELSE "refine"

\* Faulty variant of the loop condition: the substeps are not limited
LoopWhileRemaining(p) == p.remaining >= p.driver.minimum_step

\* The loop condition, evaluated on the locals after the body
LoopAgain(p) ==
    p.remaining >= p.driver.minimum_step /\ p.remaining_substeps > 0

\* Construct the propagator on the track and enter operator()(step)
Construct(t, driver, step) ==
    /\ pos(Geo(t), t) - driver.minimum_step >= 0
    /\ pos(Geo(t), t) + driver.minimum_step <= MaxPos
    /\ prop' = [driver |-> driver, step |-> step, remaining |-> step,
                remaining_substeps |-> max_substeps,
                result |-> Propagation(0, is_on_boundary(Geo(t), t)),
                pos |-> pos(Geo(t), t), mom |-> dir(Geo(t), t)]
    /\ hist' = [NoHist EXCEPT !.op = "propagate_begin",
                              !.queried = hist.queried, !.hit = hist.hit,
                              !.start_mom = dir(Geo(t), t),
                              !.committed = dir(Geo(t), t),
                              !.linear = IF driver.zero
                                         THEN LinearPropagation(Geo(t), t, step)
                                         ELSE NoLinear]
    /\ pc' = "loop"
    /\ UNCHANGED <<states, view>>

PropagateBegin(t) ==
    /\ pc = "idle"
    /\ \E driver \in Drivers, step \in 1..MaxStep : Construct(t, driver, step)
    /\ UNCHANGED params

\* A long step, taken by a track that has just crossed into the cell (1,6)
PropagateLongBegin(t) ==
    /\ pc = "idle"
    /\ hist.op = "cross_boundary"
    /\ volume_id(Geo(t), t) = 1
    /\ Construct(t, LongDriver, LongStep)
    /\ UNCHANGED params

\* A step in a zero field, by a track that the straight segment keeps in
\* the window
PropagateZeroBegin(t) ==
    /\ pc = "idle"
    /\ \E driver \in ZeroDrivers, step \in 1..MaxStep :
          /\ pos(Geo(t), t) + step * dir(Geo(t), t) - driver.minimum_step >= 0
          /\ pos(Geo(t), t) + step * dir(Geo(t), t) + driver.minimum_step
                <= MaxPos
          /\ Construct(t, driver, step)
    /\ UNCHANGED params

\* Bookkeeping of one loop iteration
Iterated(tr, branch) ==
    [hist EXCEPT !.op = "substep", !.branch = branch, !.iterations = @ + 1,
                 !.accepted = IF branch = "accept" THEN @ + 1 ELSE @,
                 !.committed = IF branch \in {"accept", "near", "close"}
                               THEN tr.substep.state.mom ELSE @,
                 !.queried = branch # "accept",
                 !.hit = branch # "accept" /\ tr.linear_step.boundary]

\* Faulty variant of the end of operator()(step): the direction of the last
\* chord is left on the navigator
FinishOnChord(g, t, p) ==
    LET moved == p.result.distance > 0
        landed == moved /\ p.result.boundary
        distance1 == IF moved /\ ~p.result.boundary /\ p.remaining_substeps > 0
                     THEN p.result.distance + p.remaining
                     ELSE p.result.distance
        stuck == distance1 = 0
        bump == Min(p.driver.minimum_step, p.step)
        Bump(g2, pos1) ==
            IF stuck
            THEN [geo |-> move_internal_pos(g2, t, pos1 + bump * p.mom),
                  pos |-> pos1 + bump * p.mom,
                  result |-> Propagation(bump, FALSE),
                  stuck |-> TRUE, from |-> pos1, charged |-> 0]
            ELSE [geo |-> g2, pos |-> pos1,
                  result |-> Propagation(distance1, p.result.boundary),
                  stuck |-> FALSE, from |-> pos1,
                  charged |-> distance1 - p.result.distance]
        Land(g1) == Bump(g1, IF landed THEN pos(g1, t) ELSE p.pos)
    IN Land(IF landed THEN move_to_boundary(g, t) ELSE g)

\* Faulty variant of the end of operator()(step): the remainder below the
\* minimum step is dropped
FinishUncharged(g, t, p) ==
    LET landed == p.result.distance > 0 /\ p.result.boundary
        stuck == p.result.distance = 0
        bump == Min(p.driver.minimum_step, p.step)
        Bump(g2, pos1) ==
            IF stuck
            THEN [geo |-> move_internal_pos(g2, t, pos1 + bump * p.mom),
                  pos |-> pos1 + bump * p.mom,
                  result |-> Propagation(bump, FALSE),
                  stuck |-> TRUE, from |-> pos1, charged |-> 0]
            ELSE [geo |-> g2, pos |-> pos1, result |-> p.result,
                  stuck |-> FALSE, from |-> pos1, charged |-> 0]
        Turn(g1) ==
            Bump(set_dir(g1, t, p.mom), IF landed THEN pos(g1, t) ELSE p.pos)
    IN Turn(IF landed THEN move_to_boundary(g, t) ELSE g)

\* After the loop: the fix-ups, the final direction, the stuck-track bump.
\* Gives the navigator, the ODE position and the Propagation returned.
Finish(g, t, p) ==
    LET moved == p.result.distance > 0
        landed == moved /\ p.result.boundary
        distance1 == IF moved /\ ~p.result.boundary /\ p.remaining_substeps > 0
                     THEN p.result.distance + p.remaining
                     ELSE p.result.distance
        d == p.mom
        stuck == distance1 = 0
        bump == Min(p.driver.minimum_step, p.step)
        Turn(g1) ==
            LET Bump(g2, pos1) ==
                    IF stuck
                    THEN [geo |-> move_internal_pos(g2, t, pos1 + bump * d),
                          pos |-> pos1 + bump * d,
                          result |-> Propagation(bump, FALSE),
                          stuck |-> TRUE, from |-> pos1, charged |-> 0]
                    ELSE [geo |-> g2, pos |-> pos1,
                          result |-> Propagation(distance1, p.result.boundary),
                          stuck |-> FALSE, from |-> pos1,
                          charged |-> distance1 - p.result.distance]
            IN Bump(set_dir(g1, t, d), IF landed THEN pos(g1, t) ELSE p.pos)
    IN Turn(IF landed THEN move_to_boundary(g, t) ELSE g)

\* (a) no boundary on the chord: accept the substep
AcceptSubstep(p, tr) ==
    LET distance == p.result.distance + Min(tr.substep.step, p.remaining)
    IN [p EXCEPT !.pos = tr.substep.state.pos,
                 !.mom = tr.substep.state.mom,
                 !.result = Propagation(distance, FALSE),
                 !.remaining = p.step - distance,
                 !.remaining_substeps = @ - 1]

\* Faulty variant of (b): the trial is retried at the same length
RetrySubstep(p, tr) == [p EXCEPT !.remaining = tr.substep.step]

\* (b) on a surface and heading straight back: halve the trial
ReentrySubstep(p, tr) == [p EXCEPT !.remaining = tr.substep.step \div 2]

\* Faulty variant of (c): the remaining length is kept
NearBoundaryContinuing(p, tr) ==
    [p EXCEPT !.result = Propagation(
                  p.result.distance + Min(tr.linear_step.distance, p.remaining),
                  TRUE),
              !.mom = tr.substep.state.mom]

\* (c) the next trial would be below the minimum step: land on the boundary
NearBoundarySubstep(p, tr) ==
    [p EXCEPT !.result = Propagation(
                  p.result.distance + Min(tr.linear_step.distance, p.remaining),
                  TRUE),
              !.mom = tr.substep.state.mom,
              !.remaining = 0]

\* Faulty variant of (d): the whole substep is charged
CloseInterceptWhole(p, tr) ==
    [p EXCEPT !.result = Propagation(p.result.distance + tr.substep.step, TRUE),
              !.mom = tr.substep.state.mom,
              !.remaining = 0]

\* (d) the intercept is within delta_intersection of the substep's end
CloseInterceptSubstep(p, tr) ==
    LET miss_distance == calc_miss_distance(p.pos, tr.chord.dir,
                             tr.linear_step.distance, tr.substep.state.pos)
    IN [p EXCEPT !.result = Propagation(
                     p.result.distance + tr.substep.step - miss_distance, TRUE),
                 !.mom = tr.substep.state.mom,
                 !.remaining = 0]

\* (e) the intercept is far from the substep's end: shorten the trial
RefineSubstep(p, tr) ==
    [p EXCEPT !.remaining =
        (tr.substep.step * tr.linear_step.distance) \div tr.chord.length]

\* The locals after the body of one iteration
LoopBody(p, tr, branch) ==
    CASE branch = "accept"  -> AcceptSubstep(p, tr)
      [] branch = "reentry" -> ReentrySubstep(p, tr)
      [] branch = "near"    -> NearBoundarySubstep(p, tr)
      [] branch = "close"   -> CloseInterceptSubstep(p, tr)
      [] branch = "refine"  -> RefineSubstep(p, tr)

\* The end of one loop iteration with the locals p and the navigator g: the
\* loop condition sends the call back to the top of the loop or through the
\* rest of operator()(step) to its return
EndIteration(t, g, p, tr, branch) ==
    IF LoopAgain(p)
    THEN /\ PutGeo(g, t)
         /\ prop' = p
         /\ hist' = Iterated(tr, branch)
         /\ pc' = "loop"
    ELSE \E f \in {Finish(g, t, p)} :
            /\ PutGeo(f.geo, t)
            /\ prop' = [p EXCEPT !.remaining = 0, !.pos = f.pos,
                                 !.result = f.result]
            /\ hist' = [Iterated(tr, branch) EXCEPT
                            !.op = "operator()", !.stuck = f.stuck,
                            !.bump_from = IF f.stuck THEN f.from ELSE 0,
                            !.charged = f.charged,
                            !.landing =
                                IF p.result.distance > 0 /\ p.result.boundary
                                THEN [called |-> TRUE,
                                      intent |-> g.states.boundary[make_lsa(g, t)],
                                      next_step |-> g.next_step,
                                      next_surface |-> g.next_surface,
                                      found |-> tr.linear_step]
                                ELSE NoLanding,
                            !.start_mom = IF f.stuck THEN @ ELSE 1,
                            !.queried = FALSE, !.hit = FALSE]
            /\ pc' = "return"

\* One iteration of the do-while loop: the driver's substep, the probe of its
\* chord, the branch taken, the loop condition
Substep(t) ==
    /\ pc = "loop"
    /\ \E substep \in DriverAdvance :
          \E tr \in {Trial(t, substep)} :
             \E branch \in {Dispatch(tr)} :
                \E p \in {LoopBody(prop, tr, branch)} :
                   \E g \in {IF branch = "accept"
                              THEN move_internal_pos(tr.geo, t,
                                                     tr.substep.state.pos)
                              ELSE tr.geo} :
                      EndIteration(t, g, p, tr, branch)
    /\ UNCHANGED params

\* The caller takes the Propagation returned; the propagator goes out of
\* scope
PropagateReturn(t) ==
    /\ pc = "return"
    /\ pc' = "idle"
    /\ prop' = IdleProp
    /\ hist' = Called("propagate", FALSE, FALSE)
    /\ UNCHANGED <<states, view>>
    /\ UNCHANGED params

-----------------------------------------------------------------------------

(* A client of the navigator alone: any sequence of calls, each made under *)
(* its preconditions                                                       *)
NavNext ==
    \E t \in Threads :
        \/ NavInitialize(t)
        \/ NavFindNextStep(t)
        \/ NavFindNextStepMax(t)
        \/ NavFindSafety(t)
        \/ NavMoveToBoundary(t)
        \/ NavMoveInternal(t)
        \/ NavMoveInternalPos(t)
        \/ NavCrossBoundary(t)
        \/ NavSetDir(t)

NavSpec == Init /\ [][NavNext]_vars

(* The stepping loop: a track is initialized, then propagated through the  *)
(* field step after step; between two steps it may cross the boundary it   *)
(* is on and may be scattered into a new direction                         *)
Next ==
    \E t \in Threads :
        \/ NavInitialize(t)
        \/ PropagateBegin(t)
        \/ Substep(t)
        \/ PropagateReturn(t)
        \/ NavCrossBoundary(t)
        \/ NavSetDir(t)

Spec == Init /\ [][Next]_vars

(* One long step of a track that has entered a cell                        *)
LongNext ==
    \E t \in Threads :
        \/ NavInitialize(t)
        \/ NavFindNextStep(t)
        \/ NavMoveToBoundary(t)
        \/ NavCrossBoundary(t)
        \/ PropagateLongBegin(t)
        \/ Substep(t)
        \/ PropagateReturn(t)

LongSpec == Init /\ [][LongNext]_vars

(* The stepping loop in a zero field                                       *)
ZeroNext ==
    \E t \in Threads :
        \/ NavInitialize(t)
        \/ PropagateZeroBegin(t)
        \/ Substep(t)
        \/ PropagateReturn(t)
        \/ NavCrossBoundary(t)
        \/ NavSetDir(t)

ZeroSpec == Init /\ [][ZeroNext]_vars

(* A track that is tracked along straight lines and then creates a         *)
(* secondary                                                               *)
SecondaryNext ==
    \E t \in Threads :
        \/ NavInitialize(t)
        \/ NavFindNextStep(t)
        \/ NavMoveToBoundary(t)
        \/ NavMoveInternal(t)
        \/ NavCrossBoundary(t)
        \/ NavSetDir(t)
        \/ NavInitializeSecondary(t)

SecondarySpec == Init /\ [][SecondaryNext]_vars

(* Tracks initialized anywhere, in a cell or not, and tracked along        *)
(* straight lines                                                          *)
LostNext ==
    \E t \in Threads :
        \/ NavInitialize(t)
        \/ NavInitializeLost(t)
        \/ NavFindNextStep(t)
        \/ NavMoveToBoundary(t)
        \/ NavCrossBoundary(t)

LostSpec == Init /\ [][LostNext]_vars

(* A track initialized in a cell of one of the geometries and tracked by   *)
(* the loop of find_next_step, move_to_boundary and cross_boundary, its    *)
(* direction unchanged                                                     *)
TrackInit ==
    /\ params \in {NestedParams, FourLevelsParams, ConcentricParams}
    /\ Constructed

TrackNext ==
    \E t \in Threads :
        \/ NavInitialize(t)
        \/ TrackFind(t)
        \/ TrackMove(t)
        \/ TrackCross(t)

TrackSpec == TrackInit /\ [][TrackNext]_vars

(* A unit indexer constructed from the numbers of surfaces and of volumes  *)
(* of one to MaxUniverses universes, and called with valid ids             *)
Counts(lowest) ==
    UNION {[1..n -> lowest..MaxCount] : n \in 1..MaxUniverses}

IndexerInit ==
    /\ \E surfaces \in Counts(0), volumes \in Counts(1) :
          /\ Len(surfaces) = Len(volumes)
          /\ params = CountedParams(surfaces, volumes)
    /\ Constructed

IndexerNext ==
    \/ IndexGlobalSurface
    \/ IndexGlobalVolume
    \/ IndexLocalSurface
    \/ IndexLocalVolume

IndexerSpec == IndexerInit /\ [][IndexerNext]_vars

(* The tracker of a rectilinear array, called with points in and around    *)
(* the array and with unit directions                                      *)
RectInit ==
    /\ params \in {RectParams(GridOfTest), RectParams(NonuniformArray)}
    /\ Constructed

RectNext ==
    \/ RectInitialize
    \/ RectIntersect
    \/ RectCrossBoundary

RectSpec == RectInit /\ [][RectNext]_vars

-----------------------------------------------------------------------------
(* Two tracks, one per thread, each with its own view of the shared state  *)
(* arrays; their calls interleave.  Here pc holds one position per thread. *)

\* What belongs to thread t: its levels of the state arrays, its level and
\* the members of its view
Slice(g, t) ==
    LET Own(arr) == [l \in 0..(max_level - 1) |-> arr[LevelStateAccessor(t, l)]]
    IN [vol          |-> Own(g.states.vol),
        pos          |-> Own(g.states.pos),
        dir          |-> Own(g.states.dir),
        universe     |-> Own(g.states.universe),
        surf         |-> Own(g.states.surf),
        sense        |-> Own(g.states.sense),
        boundary     |-> Own(g.states.boundary),
        level        |-> g.states.level[t],
        next_step    |-> g.next_step,
        next_surface |-> g.next_surface]

\* The slice of a thread as constructed
FreshSlice ==
    [vol          |-> [l \in 0..(max_level - 1) |-> Null],
     pos          |-> [l \in 0..(max_level - 1) |-> 0],
     dir          |-> [l \in 0..(max_level - 1) |-> 1],
     universe     |-> [l \in 0..(max_level - 1) |-> Null],
     surf         |-> [l \in 0..(max_level - 1) |-> Null],
     sense        |-> [l \in 0..(max_level - 1) |-> "inside"],
     boundary     |-> [l \in 0..(max_level - 1) |-> "exiting"],
     level        |-> 0,
     next_step    |-> 0,
     next_surface |-> NoSurface]

\* The navigator of thread t when its slice is sl and no other thread has
\* ever run
Alone(sl, t) ==
    LET Arr(own, fresh) ==
            [i \in Slots |->
                IF \E l \in 0..(max_level - 1) : i = LevelStateAccessor(t, l)
                THEN own[i - LevelStateAccessor(t, 0)] ELSE fresh]
    IN [states |-> [vol      |-> Arr(sl.vol, Null),
                    pos      |-> Arr(sl.pos, 0),
                    dir      |-> Arr(sl.dir, 1),
                    universe |-> Arr(sl.universe, Null),
                    surf     |-> Arr(sl.surf, Null),
                    sense    |-> Arr(sl.sense, "inside"),
                    boundary |-> Arr(sl.boundary, "exiting"),
                    level    |-> [u \in AllThreads |->
                                     IF u = t THEN sl.level ELSE 0]],
        next_step    |-> sl.next_step,
        next_surface |-> sl.next_surface]

\* A call by thread t that leaves the navigator g; alone is what the same
\* call leaves when thread t runs by itself
ConcCall(t, op, g, alone) ==
    /\ PutGeo(g, t)
    /\ hist' = [NoHist EXCEPT !.op = op,
                              !.solo = [hist.solo EXCEPT ![t] = Slice(alone, t)]]
    /\ prop' = IdleProp
    /\ UNCHANGED params

ConcInitialize(t) ==
    /\ pc[t] = "init"
    /\ \E p \in PosRange, d \in Dirs :
          /\ CanInitialize(top_universe_id, p)
          /\ ConcCall(t, "initialize",
                      Initialize(Geo(t), t, [pos |-> p, dir |-> d]),
                      Initialize(Alone(hist.solo[t], t), t,
                                 [pos |-> p, dir |-> d]))
    /\ pc' = [pc EXCEPT ![t] = "idle"]

\* The same outcome of the out-of-bounds read is taken in both runs.  The
\* track is dropped; a run in which the levels of another track have been
\* overwritten is followed no further.
ConcInitializeLost(t) ==
    /\ pc[t] = "init"
    /\ \E p \in PosRange, d \in Dirs :
          /\ ~CanInitialize(top_universe_id, p)
          /\ \E g \in InitializeLost(Geo(t), t, [pos |-> p, dir |-> d]),
                a \in InitializeLost(Alone(hist.solo[t], t), t,
                                     [pos |-> p, dir |-> d]) :
                /\ Slice(a, t) = Slice(g, t)
                /\ ConcCall(t, "initialize (lost)", g, a)
    /\ pc' = IF \A u \in AllThreads \ {t} :
                    Slice(GeoNext(u), u) = Slice(Geo(u), u)
             THEN [pc EXCEPT ![t] = "done"]
             ELSE [u \in AllThreads |-> "done"]

ConcFindNextStep(t) ==
    /\ pc[t] = "idle"
    /\ ConcCall(t, "find_next_step",
                find_next_step(Geo(t), t).geo,
                find_next_step(Alone(hist.solo[t], t), t).geo)
    /\ UNCHANGED pc

ConcMoveToBoundary(t) ==
    /\ pc[t] = "idle"
    /\ CanMoveToBoundary(Geo(t), t)
    /\ pos(move_to_boundary(Geo(t), t), t) \in PosRange
    /\ ConcCall(t, "move_to_boundary",
                move_to_boundary(Geo(t), t),
                move_to_boundary(Alone(hist.solo[t], t), t))
    /\ UNCHANGED pc

ConcCrossBoundary(t) ==
    /\ pc[t] = "idle"
    /\ CanCrossBoundary(Geo(t), t)
    /\ ConcCall(t, "cross_boundary",
                cross_boundary(Geo(t), t),
                cross_boundary(Alone(hist.solo[t], t), t))
    /\ UNCHANGED pc

ConcInit ==
    /\ params = NestedParams
    /\ states = Alone(FreshSlice, 0).states
    /\ view = [t \in AllThreads |->
                 [next_step |-> 0, next_surface |-> NoSurface]]
    /\ pc = [t \in AllThreads |-> "init"]
    /\ prop = IdleProp
    /\ hist = [NoHist EXCEPT !.solo = [t \in AllThreads |-> FreshSlice]]

ConcNext ==
    \E t \in AllThreads :
        \/ ConcInitialize(t)
        \/ ConcInitializeLost(t)
        \/ ConcFindNextStep(t)
        \/ ConcMoveToBoundary(t)
        \/ ConcCrossBoundary(t)

ConcSpec == ConcInit /\ [][ConcNext]_vars

-----------------------------------------------------------------------------
(* A point translated by a vector and then by the opposite vector          *)

\* Components of the points and of the translation vectors, in hundredths
PointComponents == {0, 10, 11, 20, 30}
VecComponents == {0, 100, -300}

TranslatedPoints == [1..3 -> PointComponents]
TranslationVectors == [1..3 -> VecComponents] \cup {<<100, 200, 300>>}

Translate ==
    /\ pc = "init"
    /\ hist' = [hist EXCEPT
                  !.op = "translate",
                  !.translate.point =
                      Translator(hist.translate.point,
                                 hist.translate.trans_vec)]
    /\ pc' = "translated"
    /\ UNCHANGED <<params, states, view, prop>>

TranslateBack ==
    /\ pc = "translated"
    /\ hist' = [hist EXCEPT
                  !.op = "translate back",
                  !.translate.point =
                      Translator(hist.translate.point,
                                 [i \in 1..3 |-> -hist.translate.trans_vec[i]])]
    /\ pc' = "done"
    /\ UNCHANGED <<params, states, view, prop>>

TranslateInit ==
    /\ params = RectParams(GridOfTest)
    /\ \E point \in TranslatedPoints, trans_vec \in TranslationVectors :
          /\ states = Alone(FreshSlice, 0).states
          /\ view = [t \in AllThreads |->
                       [next_step |-> 0, next_surface |-> NoSurface]]
          /\ pc = "init"
          /\ prop = IdleProp
          /\ hist = [NoHist EXCEPT
                       !.translate = [given     |-> point,
                                      point     |-> point,
                                      trans_vec |-> trans_vec]]

TranslateNext ==
    \/ Translate
    \/ TranslateBack

TranslateSpec == TranslateInit /\ [][TranslateNext]_vars

-----------------------------------------------------------------------------
(* ProcessPrimariesLauncher: one thread per primary writes a track          *)
(* initializer.  Here params holds the launcher's span of primaries, states *)
(* the TrackInitStateData it was constructed with, and pc one position per  *)
(* thread.                                                                  *)

\* The primaries a launcher may be given
PrimarySamples ==
    { [track_id |-> 0, event_id |-> 0, time |-> 0, position |-> <<1, 2, 3>>,
       direction |-> <<1, 0, 0>>, particle_id |-> 0, energy |-> 10],
      [track_id |-> 1, event_id |-> 0, time |-> 2, position |-> <<4, 5, 6>>,
       direction |-> <<0, 1, 0>>, particle_id |-> 1, energy |-> 20],
      [track_id |-> 0, event_id |-> 1, time |-> 4, position |-> <<7, 8, 9>>,
       direction |-> <<0, 0, -1>>, particle_id |-> 0, energy |-> 30] }

\* An initializer left in the array by an earlier step
StaleInitializer ==
    [sim      |-> [track_id |-> 9, parent_id |-> 8, event_id |-> 7,
                   num_steps |-> 5, time |-> 6, status |-> "killed"],
     geo      |-> [pos |-> <<0, 0, 0>>, dir |-> <<0, 0, 1>>],
     particle |-> [particle_id |-> 2, energy |-> 1]]

\* primaries_.size() and data_.initializers.size()
NumPrimaries == Cardinality(DOMAIN params.primaries)
NumInitializers == Cardinality(DOMAIN states.initializers)

\* Faulty variant of operator()(tid): the initializer is taken from the front
\* of the array
LaunchFromFront(initializers, primaries, tid) ==
    LET primary == primaries[tid]
    IN [initializers EXCEPT
          ![tid] = [@ EXCEPT !.sim.track_id = primary.track_id,
                             !.sim.parent_id = Null,
                             !.sim.event_id = primary.event_id,
                             !.sim.num_steps = 0,
                             !.sim.time = primary.time,
                             !.sim.status = "alive",
                             !.geo.pos = primary.position,
                             !.geo.dir = primary.direction,
                             !.particle.particle_id = primary.particle_id,
                             !.particle.energy = primary.energy]]

\* operator()(tid): the array of initializers afterwards
ProcessPrimariesLauncher(initializers, primaries, tid) ==
    LET index == Cardinality(DOMAIN initializers)
                    - Cardinality(DOMAIN primaries) + tid
        primary == primaries[tid]
    IN [initializers EXCEPT
          ![index] = [@ EXCEPT !.sim.track_id = primary.track_id,
                               !.sim.parent_id = Null,
                               !.sim.event_id = primary.event_id,
                               !.sim.num_steps = 0,
                               !.sim.time = primary.time,
                               !.sim.status = "alive",
                               !.geo.pos = primary.position,
                               !.geo.dir = primary.direction,
                               !.particle.particle_id = primary.particle_id,
                               !.particle.energy = primary.energy]]

\* The thread tid runs the launcher
ProcessPrimary(tid) ==
    /\ pc[tid] = "init"
    /\ states' = [states EXCEPT !.initializers =
                     ProcessPrimariesLauncher(states.initializers,
                                              params.primaries, tid)]
    /\ pc' = [pc EXCEPT ![tid] = "done"]
    /\ hist' = [NoHist EXCEPT !.op = "process_primaries"]
    /\ UNCHANGED <<params, view, prop>>

\* n primaries and an array of S >= n initializers
PrimaryInit ==
    /\ \E n \in 1..MaxPrimaries : \E S \in n..MaxInitializers :
          /\ params \in [primaries : [0..(n - 1) -> PrimarySamples]]
          /\ states = [initializers |-> [i \in 0..(S - 1) |-> StaleInitializer]]
          /\ pc = [tid \in 0..(n - 1) |-> "init"]
    /\ view = [t \in AllThreads |->
                 [next_step |-> 0, next_surface |-> NoSurface]]
    /\ prop = IdleProp
    /\ hist = NoHist

PrimaryNext == \E tid \in DOMAIN pc : ProcessPrimary(tid)

PrimarySpec == PrimaryInit /\ [][PrimaryNext]_vars

-----------------------------------------------------------------------------
(* Properties *)

\* C1: every call propagate(step) returns 0 < result.distance <= step and
\* result.boundary equal to the navigator's is_on_boundary()
C1_PropagatePostcondition ==
    \A t \in Threads :
        pc = "return" =>
            /\ 0 < prop.result.distance
            /\ prop.result.distance <= prop.step
            /\ prop.result.boundary = is_on_boundary(Geo(t), t)

-----------------------------------------------------------------------------
(* Properties of the navigator (NavSpec) *)

\* The calls after which the cached step is cleared
Invalidating ==
    {"initialize", "set_dir", "move_internal_pos", "move_to_boundary",
     "cross_boundary", "cross_boundary (reentrant)"}

\* C2: the ordering contract is carried by the cached step.  After
\* initialize, set_dir, move_internal(pos), move_to_boundary and
\* cross_boundary no step is cached; move_internal(d) and move_to_boundary
\* are enabled only when a find_next_step has answered since the last of
\* these calls, and move_to_boundary only when one reported boundary = true
C2_OrderingContract ==
    \A t \in Threads :
        /\ hist.op \in Invalidating => ~has_next_step(Geo(t))
        /\ has_next_step(Geo(t)) => hist.queried
        /\ (\E dist \in 1..MaxStep : CanMoveInternal(Geo(t), t, dist))
              => hist.queried
        /\ CanMoveToBoundary(Geo(t), t) => hist.queried /\ hist.hit

\* A find_next_step has enabled move_to_boundary
C2_Witness ==
    \E t \in Threads :
        /\ hist.op \in {"find_next_step", "find_next_step_max"}
        /\ hist.hit
        /\ CanMoveToBoundary(Geo(t), t)

\* C3: immediately after move_to_boundary the surface of the current level
\* is the one the preceding find_next_step cached, it is not null (the track
\* is on a boundary) and no step is cached
C3_MoveToBoundary ==
    [][\A t \in Threads :
          hist'.op = "move_to_boundary" =>
              /\ hist.queried /\ hist.hit
              /\ surface_id(GeoNext(t), t) = view[t].next_surface.id
              /\ surface_id(GeoNext(t), t) # Null
              /\ is_on_boundary(GeoNext(t), t)
              /\ ~has_next_step(GeoNext(t))]_vars

\* The track has been moved onto a surface
C3_Witness ==
    \E t \in Threads :
        /\ hist.op = "move_to_boundary"
        /\ is_on_boundary(Geo(t), t)
        /\ ~has_next_step(Geo(t))

\* What C4 asks of a navigator g that a reversing set_dir has just left on
\* the boundary: both find_next_step report (0, true) and change nothing,
\* and cross_boundary, before or after them, changes only the intent
Reentered(g, t) ==
    LET lsa == make_lsa(g, t)
        finds == {find_next_step(g, t)}
                   \cup {find_next_step_max(g, t, m) : m \in 1..MaxStep}
        crossed == {cross_boundary(g, t)}
                     \cup {cross_boundary(f.geo, t) : f \in finds}
    IN /\ \A f \in finds : f.result = Propagation(0, TRUE) /\ f.geo = g
       /\ \A c \in crossed :
             /\ c.states.vol = g.states.vol
             /\ c.states.surf = g.states.surf
             /\ c.states.sense = g.states.sense
             /\ c.states.level = g.states.level
             /\ c.states.boundary[lsa] = "exiting"

\* C4: a set_dir that reverses the sign of normal . dir on a track that is
\* on a boundary with intent exiting makes find_next_step report
\* (0, boundary = true) and turns the next cross_boundary into a no-op that
\* keeps volume, surface and sense and resets the intent to exiting
C4_CrossIdempotent ==
    [][\A t \in Threads :
          LET lsa == make_lsa(Geo(t), t)
              normal == TrackerNormal(0, pos(Geo(t), t), surface_id(Geo(t), t))
          IN /\ ( /\ hist'.op = "set_dir"
                  /\ is_on_boundary(Geo(t), t)
                  /\ states.boundary[lsa] = "exiting"
                  /\ (normal * dir(GeoNext(t), t) >= 0)
                        # (normal * dir(Geo(t), t) >= 0) )
                => Reentered(GeoNext(t), t)
             /\ hist'.op = "cross_boundary (reentrant)"
                => /\ states'.vol = states.vol
                   /\ states'.surf = states.surf
                   /\ states'.sense = states.sense
                   /\ states'.boundary[lsa] = "exiting"]_vars

\* A cross_boundary has been absorbed after a reversing set_dir
C4_Witness ==
    \E t \in Threads :
        /\ hist.op = "cross_boundary (reentrant)"
        /\ is_on_boundary(Geo(t), t)
        /\ states.boundary[make_lsa(Geo(t), t)] = "exiting"

\* C5: after every cross_boundary the track is still on a boundary
C5_StillOnBoundary ==
    \A t \in Threads :
        hist.op \in {"cross_boundary", "cross_boundary (reentrant)"}
            => is_on_boundary(Geo(t), t)

\* The straight-line distance from the track to the nearest face, ahead of
\* it, of the cells it is in at the levels 0 .. current level
TrueDistance(g, t) ==
    LET ahead(level) ==
            LET id == local_volume(g.states.vol[LevelStateAccessor(t, level)])
            IN {(SurfaceX(id.universe, ls) - pos(g, t)) * dir(g, t) :
                    ls \in Faces(id.universe, id.volume)}
        ds == {d \in UNION {ahead(level) : level \in 0..g.states.level[t]} :
                  d > 0}
    IN LowestOr(ds, no_intersection)

\* C6: with intent exiting, find_next_step(max_step) returns the distance
\* min(D, max_step) and boundary = true exactly when D <= max_step, D being
\* the true distance to the nearest boundary over all levels
C6_UpToAndIncluding ==
    \A t \in Threads : \A max_step \in 1..MaxStep :
        (pc = "idle" /\ states.boundary[make_lsa(Geo(t), t)] = "exiting") =>
            LET r == find_next_step_max(Geo(t), t, max_step).result
                D == TrueDistance(Geo(t), t)
            IN /\ r.distance = Min(D, max_step)
               /\ r.boundary = (D <= max_step)

\* The calls that are not to change the volume the track is in
VolumePreserving ==
    {"find_next_step", "find_next_step_max", "find_safety", "move_internal",
     "move_internal_pos", "move_to_boundary", "set_dir"}

\* C7: find_next_step, find_safety, both move_internal, move_to_boundary
\* and set_dir leave the volume of every level, the current level and
\* is_outside() unchanged
C7_VolumeFrame ==
    [][\A t \in Threads :
          hist'.op \in VolumePreserving =>
              /\ states'.vol = states.vol
              /\ states'.level = states.level
              /\ states'.universe = states.universe
              /\ is_outside(GeoNext(t), t) = is_outside(Geo(t), t)]_vars

\* The track has been moved onto a surface of the cell it is still in
C7_Witness ==
    \E t \in Threads :
        /\ hist.op = "move_to_boundary"
        /\ is_on_boundary(Geo(t), t)
        /\ volume_id(Geo(t), t) \in GlobalVolumes
        /\ ~is_outside(Geo(t), t)

-----------------------------------------------------------------------------
(* Properties of the propagator *)

\* C8: every call of operator()(step) returns: the loop has a variant.  An
\* iteration that stays in the loop either accepts a substep (the committed
\* distance grows and one of the max_substeps is used up) or strictly
\* shortens the trial step; the trial step of every iteration after the
\* first is at least minimum_step > 0 and the substeps left are positive
C8_LoopTerminates ==
    [][/\ (pc = "loop" /\ pc' = "loop") =>
             /\ prop'.remaining >= prop'.driver.minimum_step
             /\ prop'.driver.minimum_step > 0
             /\ prop'.remaining_substeps > 0
       /\ (pc = "loop" /\ pc' = "loop") =>
             \/ /\ hist'.branch = "accept"
                /\ prop'.result.distance > prop.result.distance
                /\ prop'.remaining_substeps < prop.remaining_substeps
             \/ /\ hist'.branch \in {"reentry", "refine"}
                /\ prop'.remaining < prop.remaining
                /\ prop'.result.distance = prop.result.distance
                /\ prop'.remaining_substeps = prop.remaining_substeps
       /\ pc = "loop" => pc' \in {"loop", "return"}]_vars

\* A call has returned after the trial step was shortened and retried
C8_Witness ==
    /\ pc = "return"
    /\ hist.iterations >= 3
    /\ hist.accepted >= 1
    /\ hist.iterations > hist.accepted + 1

\* C9: the loop iterations of one call of operator()(step) never exceed
\* max_substeps()
C9_IterationsBounded == hist.iterations <= max_substeps

\* C9, as the loop counts: only the accepted substeps are counted against
\* max_substeps(); an iteration that shortens the trial is not
C9_AcceptedBounded ==
    /\ hist.accepted <= max_substeps
    /\ pc = "loop" => hist.accepted + prop.remaining_substeps = max_substeps
    /\ hist.iterations >= hist.accepted

\* A call has used up all its substeps, in more iterations than that
C9_Witness ==
    /\ pc = "return"
    /\ hist.accepted = max_substeps
    /\ hist.iterations > max_substeps

\* C10: when the loop has committed no distance, operator()(step) returns
\* min(bump_distance, step) and boundary = false, the navigator is off any
\* surface with no cached step, the ODE position and the navigator position
\* have both advanced by that distance along the momentum, and the momentum
\* is the one the call started with
C10_StuckEscape ==
    \A t \in Threads :
        (pc = "return" /\ hist.stuck) =>
            /\ prop.result = Propagation(Min(bump_distance, prop.step), FALSE)
            /\ ~is_on_boundary(Geo(t), t)
            /\ ~has_next_step(Geo(t))
            /\ prop.pos = hist.bump_from + prop.result.distance * prop.mom
            /\ pos(Geo(t), t) = prop.pos
            /\ dir(Geo(t), t) = prop.mom
            /\ prop.mom = hist.start_mom

\* C11: in a zero field operator()(step) does what navigator-only linear
\* propagation does: (D, true) on the same surface when the boundary
\* distance D <= step, (step, false) moved by step when D > step
C11_ZeroFieldLinear ==
    (pc = "return" /\ prop.driver.zero) =>
        /\ prop.result = hist.linear.result
        /\ states = hist.linear.states

\* C11, within the tolerances of the propagator: in a zero field
\* operator()(step) does what navigator-only linear propagation does when
\* the boundary is within the step (and, for a track that starts on a
\* surface, not nearer than bump_distance), and when there is no boundary
\* within step + delta_intersection
C11_ZeroFieldWithinTolerance ==
    (pc = "return" /\ prop.driver.zero) =>
        LET D == hist.linear.found.distance
            hit == hist.linear.found.boundary
            near == /\ hit /\ 0 < D /\ D <= prop.step
                    /\ ~(hist.linear.on_boundary /\ D < bump_distance)
            far == ~hit \/ D >= prop.step + prop.driver.delta_intersection
        IN (near \/ far) =>
              /\ prop.result = hist.linear.result
              /\ states = hist.linear.states

\* A zero-field step has ended on the boundary it was refined onto, as the
\* linear propagation does
C11_Witness ==
    /\ pc = "return" /\ prop.driver.zero
    /\ hist.iterations = 2 /\ hist.branch = "close"
    /\ hist.linear.found.boundary
    /\ hist.linear.found.distance <= prop.step
    /\ prop.result = Propagation(hist.linear.found.distance, TRUE)
    /\ states = hist.linear.states

-----------------------------------------------------------------------------
(* Properties of the initializers *)

\* C12: after a track is assigned DetailedInitializer{parent, dir} its
\* level is the parent's, at every level 0 .. level its volume, position,
\* surface, sense and boundary intent are the parent's, its direction is
\* dir, and no step is cached
C12_SecondaryFromParent ==
    \A s \in Secondaries, t \in Threads :
        hist.op = "initialize_secondary" =>
            /\ states.level[s] = states.level[t]
            /\ \A l \in 0..states.level[t] :
                  LET lsa == LevelStateAccessor(s, l)
                      lsa_other == LevelStateAccessor(t, l)
                  IN /\ states.vol[lsa] = states.vol[lsa_other]
                     /\ states.pos[lsa] = states.pos[lsa_other]
                     /\ states.surf[lsa] = states.surf[lsa_other]
                     /\ states.sense[lsa] = states.sense[lsa_other]
                     /\ states.boundary[lsa] = states.boundary[lsa_other]
                     /\ states.dir[lsa] = hist.given_dir
            /\ ~has_next_step(Geo(s))

\* The state of thread s is as constructed
Untouched(s) ==
    /\ states.level[s] = 0
    /\ view[s] = [next_step |-> 0, next_surface |-> NoSurface]
    /\ \A l \in 0..(max_level - 1) :
          LET lsa == LevelStateAccessor(s, l)
          IN /\ states.vol[lsa] = Null /\ states.universe[lsa] = Null
             /\ states.pos[lsa] = 0 /\ states.dir[lsa] = 1
             /\ states.surf[lsa] = Null /\ states.sense[lsa] = "inside"
             /\ states.boundary[lsa] = "exiting"

\* C13: initialize at a position that is in no cell of a universe leaves
\* the track marked exterior (is_outside() is true) and touches the state
\* of no other track
C13_InitializeFailure ==
    \A t \in Threads :
        hist.op = "initialize (lost)" =>
            /\ is_outside(Geo(t), t)
            /\ \A s \in Secondaries : Untouched(s)

\* C14: when cross_boundary finds no volume on the far side of the surface
\* (it then leaves the track with no surface), the track has fallen back to
\* the exterior: is_outside() is true, at any level
C14_LostTrackIsOutside ==
    \A t \in Threads :
        (hist.op = "cross_boundary" /\ ~is_on_boundary(Geo(t), t)) =>
            is_outside(Geo(t), t)

\* The track is beyond every surface of the geometry along its direction
PastAllSurfaces(g, t) ==
    \A u \in Universes : \A ls \in LocalSurfaces(u) :
        (SurfaceX(u, ls) - pos(g, t)) * dir(g, t) < 0

\* C15: in the tracking loop, find_next_step() from a track that is not
\* outside reports a boundary at a distance above zero, and the loop takes
\* the track to the exterior: a track it has taken past every surface of
\* the geometry is outside
C15_TrackingProgress ==
    \A t \in Threads :
        /\ (hist.op = "track_find" /\ ~is_outside(Geo(t), t)) =>
              (hist.hit /\ view[t].next_step > 0)
        /\ (hist.op = "track_cross" /\ PastAllSurfaces(Geo(t), t)) =>
              is_outside(Geo(t), t)

\* FourLevelsTest.tracking, "Rightward": the start (-10,-10,-10) is x = 14
\* here, and the volumes and distances expected of the loop
Rightward == [pos |-> 14, dir |-> 1]
expected_volumes ==
    <<"Shape2", "Shape1", "Envelope", "World", "Envelope", "Shape1",
      "Shape2", "Shape1", "Envelope", "World">>
expected_distances == <<5, 1, 1, 6, 1, 1, 10, 1, 1, 7>>

IsPrefix(a, b) == Len(a) <= Len(b) /\ a = SubSeq(b, 1, Len(a))

\* The loop run from the rightward start in the geometry: it finds a
\* boundary every time, what it has pushed is the beginning of what is
\* expected, and all of it once the track is outside
RightwardAsExpected(geometry) ==
    \A t \in Threads :
        (/\ params = geometry
         /\ hist.op \in {"track_find", "track_move", "track_cross"}
         /\ hist.track.start = Rightward) =>
            /\ pc # "done"
            /\ IsPrefix(hist.track.volumes, expected_volumes)
            /\ IsPrefix(hist.track.distances, expected_distances)
            /\ (pc = "idle" /\ is_outside(Geo(t), t)) =>
                  hist.track.volumes = expected_volumes

C17_IndexerRoundTrip ==
    /\ \A u \in Universes :
          /\ Offset(num_surfaces, u + 1) - Offset(num_surfaces, u)
                = Cardinality(LocalSurfaces(u))
          /\ Offset(num_volumes, u + 1) - Offset(num_volumes, u)
                = Cardinality(LocalVolumes(u))
    /\ Offset(num_surfaces, 0) = 0 /\ Offset(num_volumes, 0) = 0
    /\ hist.op = "global_surface" =>
          /\ hist.index.global \in GlobalSurfaces
          /\ local_surface(hist.index.global)
                = [universe |-> hist.index.universe,
                   surface |-> hist.index.local]
    /\ hist.op = "global_volume" =>
          /\ hist.index.global \in GlobalVolumes
          /\ local_volume(hist.index.global)
                = [universe |-> hist.index.universe,
                   volume |-> hist.index.local]
    /\ hist.op = "local_surface" =>
          /\ hist.index.universe \in Universes
          /\ hist.index.local \in LocalSurfaces(hist.index.universe)
          /\ global_surface(hist.index.universe, hist.index.local)
                = hist.index.global
    /\ hist.op = "local_volume" =>
          /\ hist.index.universe \in Universes
          /\ hist.index.local \in LocalVolumes(hist.index.universe)
          /\ global_volume(hist.index.universe, hist.index.local)
                = hist.index.global

\* A surface of the last of three universes, the second of which has none
C17_Witness ==
    /\ hist.op = "local_surface"
    /\ hist.index.universe = 2
    /\ LocalSurfaces(1) = {}
    /\ hist.index.global > hist.index.local

\* C18: for a point strictly inside a cell of the rectilinear array and a
\* unit direction, safety(pos, cell) is at most the distance that
\* intersect(state) returns from that point in that cell
C18_SafetyBelowIntersect ==
    hist.op = "rect_intersect" =>
        /\ hist.rect.isect.surface.id # Null
        /\ hist.rect.safety <= hist.rect.isect.distance

\* An oblique direction: the next plane is further than the safety
C18_Witness ==
    /\ hist.op = "rect_intersect"
    /\ hist.rect.dir.den = 3
    /\ hist.rect.safety > 0
    /\ hist.rect.isect.distance > hist.rect.safety

\* The position is outside the planes of the axis or on one of them
OffGrid(grid, x) ==
    x < grid[1] \/ x > grid[Len(grid)] \/ \E i \in 1..Len(grid) : grid[i] = x

\* The cell of the axis whose half-open interval holds the position
CellOf(grid, x) ==
    CHOOSE i \in 0..(Len(grid) - 2) : grid[i + 1] <= x /\ x < grid[i + 2]

\* C19: initialize returns the background volume with no surface for every
\* position that is on a plane of an axis, the first and the last included,
\* or outside the array, and for every other position the cell whose
\* half-open interval holds the position on each axis
C19_InitializeRejectsEdges ==
    hist.op = "rect_initialize" =>
        /\ hist.rect.init.surface = NoSurface
        /\ hist.rect.init.volume =
              IF \E ax \in Axes : OffGrid(record_(0).grid[ax], hist.rect.pos[ax])
              THEN record_(0).background
              ELSE VolumeIndexer(dims_(0),
                      [ax \in Axes |->
                          CellOf(record_(0).grid[ax], hist.rect.pos[ax])])

\* A position on the last plane of the last axis, inside on the others
C19_Witness ==
    /\ hist.op = "rect_initialize"
    /\ hist.rect.pos[3] = record_(0).grid[3][Len(record_(0).grid[3])]
    /\ \A ax \in 1..2 : ~OffGrid(record_(0).grid[ax], hist.rect.pos[ax])
    /\ hist.rect.init.volume = record_(0).background

\* The volume initialize gives at a point of the test is the number of the
\* point plus first
TestPointsNumbered(first) ==
    \A i \in 0..2, j \in 0..3 :
        (/\ params = RectParams(GridOfTest)
         /\ hist.op = "rect_initialize"
         /\ hist.rect.pos = <<1 + 2 * i, 1 + 2 * j, 60>>) =>
            hist.rect.init.volume = first + 4 * i + j

CurrentLevelSafety(g, t) ==
    LET lsa == make_lsa(g, t)
    IN IF g.states.surf[lsa] # Null THEN 0
       ELSE TrackerSafety(g.states.universe[lsa], g.states.pos[lsa],
                          local_volume(g.states.vol[lsa]).volume)

\* C21: find_safety returns 0 on a surface and otherwise the safety of the
\* current level's volume from the tracker of the current level's universe
C21_FindSafetyCurrentLevel ==
    \A t \in Threads :
        (pc = "idle" /\ hist.op = "find_safety")
            => find_safety(Geo(t), t) = CurrentLevelSafety(Geo(t), t)

\* C22: in any interleaving of the calls of two tracks, what belongs to a
\* track is what the same calls leave when the track runs alone
C22_NoSharedState ==
    \A t \in AllThreads : Slice(Geo(t), t) = hist.solo[t]

\* The exact sum of the given point and the given vector, by component
ExactSum(i) == hist.translate.given[i] + hist.translate.trans_vec[i]

\* The translator has left everything but the point as it was
OnlyThePoint ==
    /\ states = Alone(FreshSlice, 0).states
    /\ \A t \in AllThreads : view[t].next_step = 0
    /\ prop = IdleProp

C24_LoopInvariants ==
    \A t \in Threads :
        pc = "loop" =>
            /\ prop.pos = pos(Geo(t), t)
            /\ prop.result.boundary = is_on_boundary(Geo(t), t)
            /\ hist.branch \notin {"near", "close"}

\* The top of an iteration that follows a shortened trial on a surface
C24_Witness ==
    /\ pc = "loop"
    /\ hist.branch = "reentry"
    /\ hist.iterations >= 1
    /\ prop.result.boundary
    /\ is_on_boundary(Geo(0), 0)

\* C25: boundary_intent = reentrant at the current level implies that the
\* track is on a surface, so a track off every surface never has
\* find_next_step answer (0, boundary) from the reentrant latch
C25_ReentrantOnSurface ==
    \A t \in Threads :
        pc \in {"idle", "loop", "return"} =>
            /\ states.boundary[make_lsa(Geo(t), t)] = "reentrant"
                  => is_on_boundary(Geo(t), t)
            /\ ~is_on_boundary(Geo(t), t)
                  => find_next_step(Geo(t), t).result # Propagation(0, TRUE)

\* The plane of a surface, by its global id
PlaneOf(id) ==
    SurfaceX(local_surface(id).universe, local_surface(id).surface)

\* C26: no step is cached unless a straight-line query has answered since
\* the last invalidation, and a cached step is the remaining distance from
\* the track's position, along its direction, to the cached next surface
C26_CachedStepValid ==
    \A t \in Threads :
        pc = "idle" =>
            /\ ~hist.queried => ~has_next_step(Geo(t))
            /\ (has_next_step(Geo(t)) /\ view[t].next_surface.id # Null)
                  => PlaneOf(view[t].next_surface.id)
                        = pos(Geo(t), t) + view[t].next_step * dir(Geo(t), t)

\* The position of the track is within, or on a face of, the cell named by
\* the volume of its current level
WithinVolume(g, t) ==
    LET id == local_volume(volume_id(g, t))
        r == VolumeRecord(id.universe, id.volume)
        lo == IF r.lo = Null THEN -1 ELSE SurfaceX(id.universe, r.lo)
        hi == IF r.hi = Null THEN no_intersection
              ELSE SurfaceX(id.universe, r.hi)
    IN IF r.exterior THEN pos(g, t) <= lo \/ pos(g, t) >= hi
       ELSE lo <= pos(g, t) /\ pos(g, t) <= hi

\* C27: after propagate returns, the navigator's position lies within, or
\* on the boundary of, the cell named by its volume_id
C27_PositionInVolume ==
    \A t \in Threads :
        pc = "return" => WithinVolume(Geo(t), t)

\* The candidate of one level: the intersection reported by the tracker of
\* that level's universe from that level's state
Candidate(g, t, level, max_step) ==
    TrackerIntersect(g.states.universe[LevelStateAccessor(t, level)],
                     make_local_state(g, t, level), max_step)

\* The nearest candidate below max_step over the levels 0 .. current level,
\* the outermost level first on equal distances, as a global surface
NearestCandidate(g, t, max_step) ==
    LET hits == {l \in 0..g.states.level[t] :
                    Candidate(g, t, l, max_step).distance < max_step}
        Won(l) ==
            [next_step    |-> Candidate(g, t, l, max_step).distance,
             next_surface |->
                 OnSurface(global_surface(
                               g.states.universe[LevelStateAccessor(t, l)],
                               Candidate(g, t, l, max_step).surface.id),
                           Candidate(g, t, l, max_step).surface.sense)]
    IN IF hits = {}
       THEN [next_step |-> max_step, next_surface |-> NoSurface]
       ELSE Won(CHOOSE l \in hits : \A m \in hits :
                   \/ Candidate(g, t, l, max_step).distance
                         < Candidate(g, t, m, max_step).distance
                   \/ /\ Candidate(g, t, l, max_step).distance
                            = Candidate(g, t, m, max_step).distance
                      /\ l <= m)

\* C28: find_next_step_impl queries the tracker of each level once, from
\* level 0 down to the current level, keeps the nearest candidate (the
\* outermost level's on equal distances) and caches its surface as the
\* global id of the winning universe's local surface
C28_CrossUniverseIntersection ==
    \A t \in Threads :
        pc = "idle" =>
            /\ QueriedUniverses(Geo(t), t, 0, top_universe_id)
                  = [i \in 1..(states.level[t] + 1) |->
                        states.universe[LevelStateAccessor(t, i - 1)]]
            /\ \A max_step \in (1..MaxStep) \cup {no_intersection} :
                  LET found == find_next_step_impl(Geo(t), t, max_step)
                      nearest == NearestCandidate(Geo(t), t, max_step)
                  IN /\ found.next_step = nearest.next_step
                     /\ found.next_surface = nearest.next_surface

\* A find_next_step at level 1 in which the candidates of the two levels
\* are equally near and the surface of level 0 has been cached
C28_Witness ==
    \E t \in Threads :
        /\ hist.op = "find_next_step"
        /\ states.level[t] = 1
        /\ has_next_step(Geo(t))
        /\ Candidate(Geo(t), t, 0, no_intersection).distance
              = Candidate(Geo(t), t, 1, no_intersection).distance
        /\ Candidate(Geo(t), t, 0, no_intersection).surface.id # Null
        /\ view[t].next_surface.id
              = global_surface(0, Candidate(Geo(t), t, 0,
                                            no_intersection).surface.id)

\* C29: the position and the direction stored at every level from 0 to the
\* current level are those of the current level
C29_LevelsConsistent ==
    \A t \in Threads :
        pc = "idle" =>
            \A l \in 0..states.level[t] :
                /\ states.pos[LevelStateAccessor(t, l)] = pos(Geo(t), t)
                /\ states.dir[LevelStateAccessor(t, l)] = dir(Geo(t), t)

\* C30: at every level from 0 to the current level the volume is a global
\* volume id of the universe of that level; the universe of level 0 is the
\* top universe and the universe of a deeper level is the daughter of the
\* volume one level up
C30_VolumeInUniverse ==
    \A t \in Threads :
        pc = "idle" =>
            \A l \in 0..states.level[t] :
                LET lsa == LevelStateAccessor(t, l)
                IN /\ states.vol[lsa] \in GlobalVolumes
                   /\ local_volume(states.vol[lsa]).universe
                         = states.universe[lsa]
                   /\ states.universe[lsa] =
                         IF l = 0 THEN top_universe_id
                         ELSE daughter(states.vol[LevelStateAccessor(t, l - 1)])

\* C31: the track is always in a leaf cell: after initialize and after every
\* cross_boundary the volume of the current level has no daughter universe
C31_LeafCell ==
    \A t \in Threads :
        hist.op \in {"initialize", "cross_boundary",
                     "cross_boundary (reentrant)"}
            => daughter(volume_id(Geo(t), t)) = Null

\* The boundary intent that set_dir is to leave: flipped when the track is
\* on a boundary and the sign of normal . dir changes, else kept
IntentAfterSetDir(g, t, newdir) ==
    LET normal == TrackerNormal(0, pos(g, t), surface_id(g, t))
        intent == g.states.boundary[make_lsa(g, t)]
    IN IF /\ is_on_boundary(g, t)
          /\ (normal * newdir >= 0) # (normal * dir(g, t) >= 0)
       THEN flip_boundary(intent) ELSE intent

\* On a surface the track arrived on with the direction arrived, the intent
\* is reentrant exactly when the sign of normal . dir is no longer that of
\* normal . arrived
LatchFollowsArrival(g, t, arrived) ==
    LET normal == TrackerNormal(0, pos(g, t), surface_id(g, t))
    IN (is_on_boundary(g, t) /\ arrived # 0) =>
           ( g.states.boundary[make_lsa(g, t)] = "reentrant"
               <=> (normal * dir(g, t) >= 0) # (normal * arrived >= 0) )

\* C32: set_dir flips the boundary intent exactly when the track is on a
\* boundary and the sign of normal . newdir differs from that of
\* normal . dir, and leaves it alone otherwise; so while the track stays on
\* a surface without crossing, the intent is reentrant exactly when the sign
\* of normal . dir differs from the one the track arrived with
C32_SetDirLatch ==
    [][\A t \in Threads :
          /\ hist'.op = "set_dir" =>
                 states'.boundary[make_lsa(Geo(t), t)]
                     = IntentAfterSetDir(Geo(t), t, dir(GeoNext(t), t))
          /\ LatchFollowsArrival(GeoNext(t), t, hist'.arrived)]_vars

\* A set_dir has turned a track back on the surface it arrived on, and one
\* has kept the sign on a surface
C32_Witness ==
    \E t \in Threads :
        /\ hist.op = "set_dir"
        /\ is_on_boundary(Geo(t), t)
        /\ hist.arrived # 0
        /\ dir(Geo(t), t) # hist.arrived
        /\ states.boundary[make_lsa(Geo(t), t)] = "reentrant"

\* What C33 asks of a move_internal(d) that took the navigator g, with the
\* boundary step D cached, to g1: the surface is cleared, D - d is cached, a
\* find_next_step() now reports (D - d, true) for the same surface, and
\* move_to_boundary then lands where it would have landed from g
StepConsumed(g, g1, t) ==
    LET D == g.next_step
        d == (pos(g1, t) - pos(g, t)) * dir(g, t)
        found == find_next_step(g1, t)
        landed == move_to_boundary(found.geo, t)
        direct == move_to_boundary(g, t)
    IN /\ 0 < d /\ d < D
       /\ surface_id(g1, t) = Null
       /\ g1.next_step = D - d
       /\ found.result = Propagation(D - d, TRUE)
       /\ found.geo.next_surface = g.next_surface
       /\ pos(landed, t) = pos(direct, t)
       /\ surface_id(landed, t) = surface_id(direct, t)
       /\ landed.states.sense = direct.states.sense
       /\ ~has_next_step(landed)

\* C33: move_internal(d) consumes the cached step.  When a find_next_step
\* has reported (D, boundary = true) and move_internal(d) is called with
\* 0 < d < D, the surface is cleared, the cached distance becomes D - d, a
\* following find_next_step() reports (D - d, true) for the same surface and
\* a following move_to_boundary lands on the point and the surface that a
\* move_to_boundary from the original position lands on
C33_MoveInternalConsumes ==
    [][\A t \in Threads :
          ( /\ hist'.op = "move_internal"
            /\ hist.queried /\ hist.hit
            /\ view[t].next_surface.id # Null )
          => StepConsumed(Geo(t), GeoNext(t), t)]_vars

\* A track has been moved part of the way to the boundary that was found
C33_Witness ==
    \E t \in Threads :
        /\ hist.op = "move_internal"
        /\ hist.queried /\ hist.hit
        /\ view[t].next_surface.id # Null
        /\ has_next_step(Geo(t))
        /\ ~is_on_boundary(Geo(t), t)
        /\ find_next_step(Geo(t), t).result
              = Propagation(view[t].next_step, TRUE)

\* The cell a track that leaves the cell volid through a plane of the axis
\* ax is to enter: one further along the axis in the sense of the direction
\* component num, or the background volume past the first or the last cell
CellAhead(rid, volid, ax, num) ==
    LET coords == VolumeInverseIndexer(dims_(rid), volid)
        ahead == coords[ax] + (IF num > 0 THEN 1 ELSE -1)
    IN IF ahead < 0 \/ ahead > dims_(rid)[ax] - 1
       THEN record_(rid).background
       ELSE VolumeIndexer(dims_(rid), [coords EXCEPT ![ax] = ahead])

\* C34: on the rectilinear array a crossing follows the direction of
\* travel.  When intersect has selected the plane (axis a, index) ahead of
\* a track and cross_boundary is called with that surface, the sense flipped
\* as the navigator flips it, the cell returned has the coordinate a one
\* higher when the direction component on a is positive and one lower when
\* it is negative, the other coordinates unchanged, or is the background
\* volume when that would leave the grid
C34_CrossFollowsDirection ==
    hist.op = "rect_cross_boundary" =>
        \A a \in Axes : \A index \in 0..dims_(0)[a] :
            SurfaceIndexer(dims_(0), a, index) = hist.rect.isect.surface.id
                => hist.rect.cross.volume
                      = CellAhead(0, hist.rect.init.volume, a,
                                  hist.rect.dir.num[a])

\* C35: on return from operator()(step) the navigator's direction is the
\* final momentum direction of the ODE state: that of the last substep
\* whose momentum was committed, or the momentum at entry when none was,
\* and not the direction of a trial chord
C35_FinalDirection ==
    \A t \in Threads :
        pc = "return" =>
            /\ prop.mom = hist.committed
            /\ dir(Geo(t), t) = hist.committed

\* A call has returned with the track on the surface it reached along a
\* chord, its direction the committed momentum, which points back from the
\* surface
C35_Witness ==
    \E t \in Threads :
        /\ pc = "return"
        /\ hist.branch \in {"near", "close"}
        /\ prop.result.boundary
        /\ is_on_boundary(Geo(t), t)
        /\ states.sense[make_lsa(Geo(t), t)] = "inside"
        /\ dir(Geo(t), t) = -1
        /\ hist.committed = -1

\* C36: remainder accounting.  Whenever operator()(step) returns
\* boundary = false, not by the stuck-track bump and with substeps left,
\* the distance returned is step: the remainder below the minimum step is
\* charged to the distance although the track was not moved by it
C36_RemainderCharged ==
    ( /\ pc = "return"
      /\ ~prop.result.boundary
      /\ ~hist.stuck
      /\ prop.remaining_substeps > 0 )
    => /\ prop.result.distance = prop.step
       /\ hist.charged >= 0
       /\ hist.charged < prop.driver.minimum_step

\* A call has returned the whole step after substeps shorter than it: the
\* rest was charged
C36_Witness ==
    /\ pc = "return"
    /\ ~prop.result.boundary
    /\ ~hist.stuck
    /\ prop.remaining_substeps > 0
    /\ hist.accepted >= 1
    /\ hist.charged > 0
    /\ prop.result.distance = prop.step

\* C37: whenever operator()(step) calls move_to_boundary after the loop,
\* the preconditions of the call hold: the boundary intent is not
\* reentrant, and the navigator holds the step, to a surface, that the last
\* find_next_step of the loop has returned with boundary = true (a set_dir in
\* between would have cleared it)
C37_MoveToBoundaryPreconditions ==
    (pc = "return" /\ hist.landing.called) =>
        /\ hist.landing.intent # "reentrant"
        /\ hist.landing.next_step # 0
        /\ hist.landing.next_surface.id # Null
        /\ hist.landing.found.boundary
        /\ hist.landing.found.distance = hist.landing.next_step
        /\ hist.branch \in {"near", "close"}

\* A call has returned after move_to_boundary has put the track on the
\* surface that the last probe had found
C37_Witness ==
    \E t \in Threads :
        /\ pc = "return"
        /\ hist.landing.called
        /\ hist.landing.found.boundary
        /\ hist.landing.next_step > 0
        /\ is_on_boundary(Geo(t), t)
        /\ surface_id(Geo(t), t) = hist.landing.next_surface.id

\* C38: whenever operator()(step) returns boundary = true the navigator
\* satisfies the preconditions of cross_boundary (it is on a boundary and no
\* step is cached), and whenever it returns boundary = false no step is
\* cached
C38_ReturnState ==
    \A t \in Threads :
        pc = "return" =>
            /\ prop.result.boundary => CanCrossBoundary(Geo(t), t)
            /\ ~prop.result.boundary => ~has_next_step(Geo(t))

\* The initializer made of a primary: its track id, event id, time,
\* position, direction, particle id and energy, no parent, no step taken,
\* alive
FromPrimary(primary) ==
    [sim      |-> [track_id |-> primary.track_id, parent_id |-> Null,
                   event_id |-> primary.event_id, num_steps |-> 0,
                   time |-> primary.time, status |-> "alive"],
     geo      |-> [pos |-> primary.position, dir |-> primary.direction],
     particle |-> [particle_id |-> primary.particle_id,
                   energy |-> primary.energy]]

\* C39: primary processing writes disjoint slots.  With n primaries and S
\* initializers, the thread tid writes the slot S - n + tid and no other,
\* two threads write different slots, the slots below S - n are never
\* written, and a written initializer holds the primary's track id, event
\* id, time, position, direction, particle id and energy with a null parent
\* id, num_steps = 0 and the status alive
C39_PrimariesDisjoint ==
    [][LET n == NumPrimaries
           S == NumInitializers
       IN /\ \A tid \in DOMAIN pc :
                (pc[tid] = "init" /\ pc'[tid] = "done") =>
                    /\ S - n + tid \in DOMAIN states.initializers
                    /\ \A i \in DOMAIN states.initializers :
                          i # S - n + tid =>
                              states'.initializers[i] = states.initializers[i]
                    /\ states'.initializers[S - n + tid]
                          = FromPrimary(params.primaries[tid])
          /\ \A tid, other \in DOMAIN pc :
                tid # other => S - n + tid # S - n + other
          /\ \A i \in 0..(S - n - 1) :
                states'.initializers[i] = StaleInitializer
          /\ \A tid \in DOMAIN pc :
                pc'[tid] = "done" =>
                    states'.initializers[S - n + tid]
                        = FromPrimary(params.primaries[tid])]_vars

\* Every thread has run: the last n slots hold the primaries in order and
\* the slot before them is as it was
C39_Witness ==
    /\ hist.op = "process_primaries"
    /\ NumPrimaries = MaxPrimaries
    /\ NumInitializers = MaxPrimaries + 1
    /\ \A tid \in DOMAIN pc : pc[tid] = "done"
    /\ states.initializers[0] = StaleInitializer
    /\ \A tid \in DOMAIN pc :
          states.initializers[1 + tid] = FromPrimary(params.primaries[tid])
    /\ \E tid, other \in DOMAIN pc :
          params.primaries[tid] # params.primaries[other]

====
